---- MODULE Spec2Model ----
(***************************************************************************)
(* Chord reference diagrams for the six-key GKOS keyboard                  *)
(* (docs/generate_diagrams.py), their batch driver, and the bigram         *)
(* preprocessing (scripts/generate_bigrams.py).                            *)
(*                                                                         *)
(* Strings are sequences of characters; a character is a one-element       *)
(* string, a non-ASCII or control character is named by its code point     *)
(* ("U+232B").  Coordinates are exact rationals kept as integers in        *)
(* hundredths of an SVG unit (U per unit), so that every division by two   *)
(* and every product with 0.30, 0.72 and 0.7 of the source stays exact.    *)
(* A primitive is recorded with the arguments Svg.rect / Svg.text /        *)
(* Svg.comment received; its serialisation to text (one-decimal            *)
(* formatting, XML escaping) is outside the model.                         *)
(***************************************************************************)
EXTENDS Integers, Sequences, FiniteSets, TLC

VARIABLES
    layout_id,    \* generate_svg argument
    layout_name,  \* generate_svg argument
    variant,      \* generate_svg argument
    entries,      \* generate_svg argument: chord -> entry (partial)
    parts,        \* Svg._parts of the invocation in progress
    calls,        \* history: the cell renderer calls made, each with the
                  \* range of parts it appended
    doc,          \* documents returned by svg.build, oldest first
    invoked,      \* history: the arguments of the invocation that
                  \* returned each document of doc
    pc,           \* position in the code being run
    fn,           \* name of the pure function or script under evaluation
    arg,          \* its argument; for a script, with the locals of main
    res,          \* its result
    argv,         \* sys.argv of the batch driver
    fsys0,        \* history: the files that existed when main started
    fsys,         \* the files that exist: path -> content
    files,        \* main's list of the layout files to process
    printed,      \* history: the lines main printed
    written,      \* history: the files main wrote, oldest first
    mpc           \* position in main ("none": main is not running)

vars == <<layout_id, layout_name, variant, entries, parts, calls, doc,
          invoked, pc, fn, arg, res, argv, fsys0, fsys, files, printed,
          written, mpc>>

(***************************************************************************)
(* Key constants                                                           *)
(***************************************************************************)
A == 1
B == 2
C == 4
D == 8
E == 16
F == 32

KEYS == <<A, B, C, D, E, F>>
KNAME == (A :> "A") @@ (B :> "B") @@ (C :> "C") @@
         (D :> "D") @@ (E :> "E") @@ (F :> "F")
KCOL == (A :> 0) @@ (B :> 0) @@ (C :> 0) @@ (D :> 1) @@ (E :> 1) @@ (F :> 1)
KROW == (A :> 0) @@ (B :> 1) @@ (C :> 2) @@ (D :> 0) @@ (E :> 1) @@ (F :> 2)
LEFT == {A, B, C}
RIGHT == {D, E, F}

Chords == 1..63

\* Python's x & y on non-negative integers.
RECURSIVE BitAnd(_, _)
BitAnd(x, y) ==
    IF x = 0 \/ y = 0 THEN 0
    ELSE (x % 2) * (y % 2) + 2 * BitAnd(x \div 2, y \div 2)

\* Python's x | y on non-negative integers.
RECURSIVE BitOr(_, _)
BitOr(x, y) ==
    IF x = 0 THEN y
    ELSE IF y = 0 THEN x
    ELSE (IF x % 2 = 1 \/ y % 2 = 1 THEN 1 ELSE 0)
         + 2 * BitOr(x \div 2, y \div 2)

\* k1 | k2 | ... | kn
RECURSIVE Union(_)
Union(ks) == IF ks = <<>> THEN 0 ELSE BitOr(Head(ks), Union(Tail(ks)))

\* Variant of bits that tests mask | k instead of mask & k.
bits_or(mask) == SelectSeq(KEYS, LAMBDA k : BitOr(mask, k) # 0)

\* [k for k in KEYS if mask & k]
bits(mask) == SelectSeq(KEYS, LAMBDA k : BitAnd(mask, k) # 0)

\* Variant of chord_label that names the keys by position in the list
\* instead of by key.
chord_label_by_position(mask) ==
    LET ks == bits(mask) IN [i \in 1..Len(ks) |-> KNAME[KEYS[i]]]

\* ''.join(KNAME[k] for k in bits(mask))
chord_label(mask) ==
    LET ks == bits(mask) IN [i \in 1..Len(ks) |-> KNAME[ks[i]]]

(***************************************************************************)
(* Display mapping for action / special values                             *)
(***************************************************************************)
ACTION_MAP ==
    <<
    [name |-> <<"U", "p", "A", "r", "r", "o", "w">>,
     glyph |-> <<"U+2191">>],
    [name |-> <<"D", "o", "w", "n", "A", "r", "r", "o", "w">>,
     glyph |-> <<"U+2193">>],
    [name |-> <<"L", "e", "f", "t", "A", "r", "r", "o", "w">>,
     glyph |-> <<"U+2190">>],
    [name |-> <<"R", "i", "g", "h", "t", "A", "r", "r", "o", "w">>,
     glyph |-> <<"U+2192">>],
    [name |-> <<"b", "a", "c", "k", "s", "p", "a", "c", "e">>,
     glyph |-> <<"U+232B">>],
    [name |-> <<"s", "p", "a", "c", "e">>,
     glyph |-> <<"U+2423">>],
    [name |-> <<"e", "n", "t", "e", "r">>,
     glyph |-> <<"U+23CE">>],
    [name |-> <<"t", "a", "b">>,
     glyph |-> <<"U+21E5">>],
    [name |-> <<"d", "e", "l", "e", "t", "e">>,
     glyph |-> <<"U+2326">>],
    [name |-> <<"e", "s", "c">>,
     glyph |-> <<"E", "s", "c">>],
    [name |-> <<"P", "a", "g", "e", "U", "p">>,
     glyph |-> <<"P", "g", "U", "p">>],
    [name |-> <<"P", "a", "g", "e", "D", "o", "w", "n">>,
     glyph |-> <<"P", "g", "D", "n">>],
    [name |-> <<"H", "o", "m", "e">>,
     glyph |-> <<"H", "o", "m", "e">>],
    [name |-> <<"E", "n", "d">>,
     glyph |-> <<"E", "n", "d">>],
    [name |-> <<"s", "h", "i", "f", "t">>,
     glyph |-> <<"U+21E7">>],
    [name |-> <<"s", "y", "m", "b">>,
     glyph |-> <<"@", "#">>],
    [name |-> <<"m", "o", "d", "e", "_", "t", "o", "g", "g", "l", "e">>,
     glyph |-> <<"A", "B", "C", "U+21C4", "1", "2", "3">>],
    [name |-> <<"c", "t", "r", "l">>,
     glyph |-> <<"C", "t", "r", "l">>],
    [name |-> <<"a", "l", "t">>,
     glyph |-> <<"A", "l", "t">>],
    [name |-> <<"S", "c", "r", "o", "l", "l", "U", "p">>,
     glyph |-> <<"U+2191", "U+2191">>],
    [name |-> <<"S", "c", "r", "o", "l", "l", "D", "o", "w", "n">>,
     glyph |-> <<"U+2193", "U+2193">>],
    [name |-> <<"W", "o", "r", "d", "L", "e", "f", "t">>,
     glyph |-> <<"U+21D0">>],
    [name |-> <<"W", "o", "r", "d", "R", "i", "g", "h", "t">>,
     glyph |-> <<"U+21D2">>],
    [name |-> <<"P", "a", "n", "L", "e", "f", "t">>,
     glyph |-> <<"U+21C7">>],
    [name |-> <<"P", "a", "n", "R", "i", "g", "h", "t">>,
     glyph |-> <<"U+21C9">>],
    [name |-> <<"P", "a", "n", "L", "e", "f", "t", "H", "o", "m", "e">>,
     glyph |-> <<"U+21E4">>],
    [name |-> <<"P", "a", "n", "R", "i", "g", "h", "t", "E", "n", "d">>,
     glyph |-> <<"U+21E5">>],
    [name |-> <<"u", "n", "i", "c", "o", "d", "e", "_", "p", "i", "c", "k", "e", "r">>,
     glyph |-> <<"U", "n", "i">>],
    [name |-> <<"e", "m", "o", "j", "i">>,
     glyph |-> <<"U+1F600">>],
    [name |-> <<"I", "n", "s", "e", "r", "t">>,
     glyph |-> <<"I", "n", "s">>]
    >>

\* The characters str.rstrip() removes (str.isspace()).
WHITESPACE ==
    {"U+0009", "U+000A", "U+000B", "U+000C", "U+000D", "U+001C",
     "U+001D", "U+001E", "U+001F", " ", "U+0085", "U+00A0", "U+1680",
     "U+2000", "U+2001", "U+2002", "U+2003", "U+2004", "U+2005",
     "U+2006", "U+2007", "U+2008", "U+2009", "U+200A", "U+2028",
     "U+2029", "U+202F", "U+205F", "U+3000"}

RECURSIVE rstrip(_)
rstrip(s) ==
    IF s = <<>> THEN s
    ELSE IF s[Len(s)] \in WHITESPACE THEN rstrip(SubSeq(s, 1, Len(s) - 1))
    ELSE s

\* s.strip()
strip(s) ==
    LET keep == {i \in DOMAIN s : s[i] \notin WHITESPACE} IN
    IF keep = {} THEN <<>>
    ELSE SubSeq(s, CHOOSE i \in keep : \A j \in keep : i <= j,
                   CHOOSE i \in keep : \A j \in keep : j <= i)

\* _ACTION.get(val) is not None
ACTION_MAP_has(val) == \E i \in DOMAIN ACTION_MAP : ACTION_MAP[i].name = val

\* _ACTION.get(val)
ACTION_MAP_get(val) == ACTION_MAP[CHOOSE i \in DOMAIN ACTION_MAP : ACTION_MAP[i].name = val].glyph

\* Variant of disp that strips trailing whitespace before the lookup.
disp_strip_first(val) ==
    IF val = <<>> THEN <<>>
    ELSE IF ACTION_MAP_has(rstrip(val)) THEN ACTION_MAP_get(rstrip(val))
    ELSE rstrip(val)

disp(val) ==
    IF val = <<>> THEN <<>>
    ELSE IF ACTION_MAP_has(val) THEN ACTION_MAP_get(val)
    ELSE rstrip(val)

Max(a, b) == IF a >= b THEN a ELSE b

\* Variant of font_size_for with the floor of the 3-4 character bucket
\* above the floor of the 2 character bucket.
font_size_for_high_floor(char, base_size) ==
    LET n == Len(char) IN
    IF n <= 1 THEN base_size
    ELSE IF n = 2 THEN Max(9, base_size - 3)
    ELSE IF n <= 4 THEN Max(10, base_size - 5)
    ELSE Max(7, base_size - 7)

font_size_for(char, base_size) ==
    LET n == Len(char) IN
    IF n <= 1 THEN base_size
    ELSE IF n = 2 THEN Max(9, base_size - 3)
    ELSE IF n <= 4 THEN Max(8, base_size - 5)
    ELSE Max(7, base_size - 7)

(***************************************************************************)
(* SVG builder: the primitives as Svg.rect / Svg.text / Svg.comment        *)
(* receive them                                                            *)
(***************************************************************************)
U == 100   \* hundredths of an SVG unit per unit

\* Variant of Svg.__init__ that keeps the parts of the previous canvas.
Svg_init_shared == parts

\* Python's None: a value that is no string (no character is named None).
None == <<"None">>

\* Svg.__init__: self._parts = []
Svg_init == <<>>

Svg_rect(x, y, w, h, fill, stroke, rx, stroke_width) ==
    [kind |-> "rect", x |-> x, y |-> y, w |-> w, h |-> h,
     fill |-> fill, stroke |-> stroke, sw |-> stroke_width, rx |-> rx]

\* anchor defaults to 'middle', weight to 'normal', baseline to 'central'
Svg_text(x, y, txt, size, fill, anchor, weight) ==
    [kind |-> "text", x |-> x, y |-> y, txt |-> txt, size |-> size,
     fill |-> fill, anchor |-> anchor, weight |-> weight, bl |-> "central"]

Svg_comment(s) == [kind |-> "comment", s |-> s]

\* Svg.build(w, h): the document is its declared size and the parts in
\* the order they were appended.
Svg_build(ps, w, h) == [w |-> w, h |-> h, body |-> ps]

RECURSIVE Flatten(_)
Flatten(ss) == IF ss = <<>> THEN <<>> ELSE Head(ss) \o Flatten(Tail(ss))

(***************************************************************************)
(* Drawing primitives                                                      *)
(***************************************************************************)
\* text_fill is None at every call site, so the fill is the default of
\* the branch taken.
draw_key(x, y, w, h, char, pressed, font_size, dimmed) ==
    LET box == IF pressed
               THEN Svg_rect(x, y, w, h, "#222", "#222", 4 * U, 150)
               ELSE IF dimmed
               THEN Svg_rect(x, y, w, h, "#f0f0f0", "#ccc", 4 * U, 1 * U)
               ELSE Svg_rect(x, y, w, h, "white", "#555", 4 * U, 150)
        fill == IF pressed THEN "white" ELSE IF dimmed THEN "#888" ELSE "black"
    IN  IF char # <<>>
        THEN <<box, Svg_text(x + w \div 2, y + h \div 2, char,
                             font_size_for(char, font_size), fill,
                             "middle", "bold")>>
        ELSE <<box>>

\* key_info: one record per key in KEYS order, the info.get defaults
\* already applied.
draw_6keys(ox, oy, kw, kh, gx, gy, key_info) ==
    Flatten([i \in DOMAIN KEYS |->
        LET key == KEYS[i]
            x == ox + KCOL[key] * (kw + gx)
            y == oy + KROW[key] * (kh + gy)
            info == key_info[i]
        IN  draw_key(x, y, kw, kh, info.char, info.pressed,
                     info.font_size, info.dimmed)])

KeyInfo(char, pressed, font_size, dimmed) ==
    [char |-> char, pressed |-> pressed, font_size |-> font_size,
     dimmed |-> dimmed]

(***************************************************************************)
(* Diagram section drawing                                                 *)
(***************************************************************************)
draw_num_symb(x, y_num, y_symb, num_char, symb_char, anchor, nsz, ssz) ==
    (IF num_char # <<>>
     THEN <<Svg_text(x, y_num, num_char, nsz, "#999", anchor, "bold")>>
     ELSE <<>>)
    \o
    (IF symb_char # <<>>
     THEN <<Svg_text(x, y_symb, symb_char, ssz, "#2266cc", anchor,
                     "normal")>>
     ELSE <<>>)

\* entries.get(chord) is truthy: parse_layout binds every chord it reads
\* to a six-field dict, which is never empty.
Has(ent, chord) == chord \in DOMAIN ent

\* Variant of the field lookup that shows a placeholder for a chord
\* without entry.
FieldOf_placeholder(ent, chord, field) ==
    IF Has(ent, chord) THEN disp(ent[chord][field]) ELSE <<"?">>

\* disp(e[field]) if e else ''
FieldOf(ent, chord, field) ==
    IF Has(ent, chord) THEN disp(ent[chord][field]) ELSE <<>>

draw_center_cell(cx, cy, ent) ==
    LET kw == 55 * U
        kh == 42 * U
        gx == 26 * U
        gy == 8 * U
        total_w == 2 * kw + gx
        total_h == 3 * kh + 2 * gy
        ox == cx - total_w \div 2
        oy == cy - total_h \div 2
        key_info == [i \in DOMAIN KEYS |->
                        KeyInfo(FieldOf(ent, KEYS[i], "abc"), FALSE, 24, FALSE)]
        ann(key) ==
            IF ~Has(ent, key) THEN <<>>
            ELSE LET kx == ox + KCOL[key] * (kw + gx)
                     ky == oy + KROW[key] * (kh + gy)
                     num_char == disp(ent[key].num)
                     symb_char == disp(ent[key].symb)
                 IN  IF key \in LEFT
                     THEN draw_num_symb(kx - 7 * U,
                                        ky + (kh * 30) \div 100,
                                        ky + (kh * 72) \div 100,
                                        num_char, symb_char, "end", 12, 11)
                     ELSE draw_num_symb(kx + kw + 7 * U,
                                        ky + (kh * 30) \div 100,
                                        ky + (kh * 72) \div 100,
                                        num_char, symb_char, "start", 12, 11)
    IN  draw_6keys(ox, oy, kw, kh, gx, gy, key_info)
        \o Flatten([i \in DOMAIN KEYS |-> ann(KEYS[i])])

\* CPython's set: a hash table of 8 slots that grows to the next power of
\* two above four times its size once three fifths of the slots are in
\* use.  A table is the function from its slots 0..mask to the key held,
\* 0 for a free slot; the hash of a key is the key.
LINEAR_PROBES == 9
PERTURB_SHIFT == 5

\* The free slot the probe sequence of a key finds, from slot i on.
RECURSIVE set_slot(_, _, _)
set_slot(table, i, perturb) ==
    LET mask == Cardinality(DOMAIN table) - 1
        probes == IF i + LINEAR_PROBES <= mask THEN LINEAR_PROBES ELSE 0
        free == {j \in i..(i + probes) : table[j] = 0}
        shifted == perturb \div (2 ^ PERTURB_SHIFT)
    IN  IF free # {} THEN CHOOSE j \in free : \A q \in free : j <= q
        ELSE set_slot(table, (i * 5 + 1 + shifted) % (mask + 1), shifted)

\* The table with the keys ks inserted in order (set_insert_clean).
RECURSIVE set_insert(_, _)
set_insert(table, ks) ==
    IF ks = <<>> THEN table
    ELSE LET k == Head(ks)
             size == Cardinality(DOMAIN table)
         IN  set_insert([table EXCEPT ![set_slot(table, k % size, k)] = k],
                        Tail(ks))

\* The keys of a table in slot order: the order of iteration.
set_iter(table) ==
    LET used == {i \in DOMAIN table : table[i] # 0}
        nth(n) == CHOOSE i \in used : Cardinality({j \in used : j <= i}) = n
    IN  [n \in 1..Cardinality(used) |-> table[nth(n)]]

\* The smallest table size above minused (set_table_resize).
RECURSIVE set_size(_, _)
set_size(newsize, minused) ==
    IF newsize > minused THEN newsize ELSE set_size(2 * newsize, minused)

\* set(ks): the table after adding the keys ks in order (set_add_key)
RECURSIVE set_table(_)
set_table(ks) ==
    IF ks = <<>> THEN [i \in 0..7 |-> 0]
    ELSE LET t == set_table(SubSeq(ks, 1, Len(ks) - 1))
             k == ks[Len(ks)]
             added == set_insert(t, <<k>>)
             mask == Cardinality(DOMAIN t) - 1
             fill == Len(set_iter(added))
         IN  IF \E i \in DOMAIN t : t[i] = k THEN t
             ELSE IF fill * 5 >= mask * 3
             THEN set_insert([i \in 0..(set_size(8, fill * 4) - 1) |-> 0],
                             set_iter(added))
             ELSE added

\* list(keyset) of a Python set of keys: every set of the program is
\* built from its keys in the order of KEYS (bits, and the literals LEFT
\* and RIGHT).
SetOrder(keyset) ==
    set_iter(set_table(SelectSeq(KEYS, LAMBDA k : k \in keyset)))

Range(f) == {f[i] : i \in DOMAIN f}

\* Variant of BadgeX that offsets the badge of the adjacent pairs
\* instead of the non-adjacent ones.
BadgeX_adjacent(lx0, is_non_adjacent, pressed_on_left) ==
    IF ~is_non_adjacent
    THEN (IF pressed_on_left THEN lx0 - 14 * U ELSE lx0 + 14 * U)
    ELSE lx0

\* Issue 4: offset badge outward for non-adjacent pairs
BadgeX(lx0, is_non_adjacent, pressed_on_left) ==
    IF is_non_adjacent
    THEN (IF pressed_on_left THEN lx0 - 14 * U ELSE lx0 + 14 * U)
    ELSE lx0

\* Variant of ExtSide that takes the hand of the pressed pair itself.
ExtSide_same(base_chord) ==
    LET pressed == Range(bits(base_chord)) IN
    IF pressed \subseteq LEFT THEN LEFT
    ELSE IF pressed \subseteq RIGHT THEN RIGHT
    ELSE {}

\* Opposite side for 3-key extensions
ExtSide(base_chord) ==
    LET pressed == Range(bits(base_chord)) IN
    IF pressed \subseteq LEFT THEN RIGHT
    ELSE IF pressed \subseteq RIGHT THEN LEFT
    ELSE {}

draw_inner_chord_cell(cx, cy, ent, base_chord) ==
    LET kw == 42 * U
        kh == 30 * U
        gx == 14 * U
        gy == 6 * U
        total_w == 2 * kw + gx
        total_h == 3 * kh + 2 * gy
        ox == cx - total_w \div 2
        oy == cy - total_h \div 2
        pressed == Range(bits(base_chord))
        base_char == FieldOf(ent, base_chord, "abc")
        base_num == FieldOf(ent, base_chord, "num")
        base_symb == FieldOf(ent, base_chord, "symb")
        pressed_on_left == pressed \subseteq LEFT
        pressed_on_right == pressed \subseteq RIGHT
        ext_side == ExtSide(base_chord)
        \* keys of ext_data
        ext_keys == {key \in ext_side : Has(ent, BitOr(base_chord, key))}
        ext_data(key, field) == disp(ent[BitOr(base_chord, key)][field])
        rows == {KROW[k] : k \in pressed}
        row_min == CHOOSE r \in rows : \A q \in rows : r <= q
        row_max == CHOOSE r \in rows : \A q \in rows : r >= q
        is_non_adjacent == (row_max - row_min) > 1
        key_info == [i \in DOMAIN KEYS |->
            IF KEYS[i] \in pressed THEN KeyInfo(<<>>, TRUE, 14, FALSE)
            ELSE IF KEYS[i] \in ext_keys
            THEN KeyInfo(ext_data(KEYS[i], "abc"), FALSE, 13, FALSE)
            ELSE KeyInfo(<<>>, FALSE, 16, TRUE)]
        \* list(pressed)[0]: the first key of the set in iteration order
        col == KCOL[Head(SetOrder(pressed))]
        lx0 == ox + col * (kw + gx) + kw \div 2
        y_top == oy + row_min * (kh + gy) + kh \div 2
        y_bot == oy + row_max * (kh + gy) + kh \div 2
        ly == (y_top + y_bot) \div 2
        lx == BadgeX(lx0, is_non_adjacent, pressed_on_left)
        fs == font_size_for(base_char, 16)
        \* len(base_char) * fs * 0.7 + 8
        badge_w == Max(kw - 2 * U, Len(base_char) * fs * 70 + 8 * U)
        badge_h == (fs + 8) * U
        ann_x == IF pressed_on_left THEN lx - badge_w \div 2 - 4 * U
                 ELSE lx + badge_w \div 2 + 4 * U
        anchor == IF pressed_on_left THEN "end" ELSE "start"
        badge ==
            IF base_char # <<>>
            THEN <<Svg_rect(lx - badge_w \div 2, ly - badge_h \div 2,
                            badge_w, badge_h, "#333", "#333",
                            badge_h \div 2, 0),
                   Svg_text(lx, ly, base_char, fs, "white", "middle", "bold")>>
                 \o draw_num_symb(ann_x, ly - 6 * U, ly + 6 * U,
                                  base_num, base_symb, anchor, 9, 8)
            ELSE <<>>
        ext_ann(key) ==
            IF key \notin ext_keys THEN <<>>
            ELSE LET kx == ox + KCOL[key] * (kw + gx)
                     ky == oy + KROW[key] * (kh + gy)
                 IN  IF key \in LEFT
                     THEN draw_num_symb(kx - 4 * U,
                                        ky + (kh * 30) \div 100,
                                        ky + (kh * 72) \div 100,
                                        ext_data(key, "num"),
                                        ext_data(key, "symb"), "end", 9, 8)
                     ELSE draw_num_symb(kx + kw + 4 * U,
                                        ky + (kh * 30) \div 100,
                                        ky + (kh * 72) \div 100,
                                        ext_data(key, "num"),
                                        ext_data(key, "symb"), "start", 9, 8)
        ext_order == SetOrder(ext_side)
    IN  draw_6keys(ox, oy, kw, kh, gx, gy, key_info)
        \o badge
        \o Flatten([i \in DOMAIN ext_order |-> ext_ann(ext_order[i])])

\* The mini keyboard of the outer, direction, mode and control cells:
\* exactly the chord's keys pressed, every other key dimmed, no glyph.
MiniKeys(chord_mask, font_size) ==
    LET pressed == Range(bits(chord_mask)) IN
    [i \in DOMAIN KEYS |->
        KeyInfo(<<>>, KEYS[i] \in pressed, font_size, KEYS[i] \notin pressed)]

draw_outer_chord_cell(cx, cy, ent, chord_mask, cell_w, cell_h) ==
    LET char == FieldOf(ent, chord_mask, "abc")
        num_char == FieldOf(ent, chord_mask, "num")
        symb_char == FieldOf(ent, chord_mask, "symb")
        mkw == 20 * U
        mkh == 15 * U
        mgx == 5 * U
        mgy == 3 * U
        kb_w == 2 * mkw + mgx
        kb_h == 3 * mkh + 2 * mgy
        kb_ox == cx - kb_w \div 2
        kb_oy == cy - kb_h \div 2 - 2 * U
        bottom == cy + cell_h \div 2
    IN  <<Svg_rect(cx - cell_w \div 2, cy - cell_h \div 2, cell_w, cell_h,
                   "#fafafa", "#ddd", 7 * U, 1 * U)>>
        \o (IF char # <<>>
            THEN <<Svg_text(cx, cy - cell_h \div 2 + 14 * U, char,
                            font_size_for(char, 20), "#222", "middle",
                            "bold")>>
            ELSE <<>>)
        \o draw_6keys(kb_ox, kb_oy, mkw, mkh, mgx, mgy,
                      MiniKeys(chord_mask, 7))
        \o draw_num_symb(cx, bottom - 20 * U, bottom - 8 * U,
                         num_char, symb_char, "middle", 10, 9)

\* The compact mini keyboard shared by the direction, mode and control
\* cells.
CompactKeys(cx, cy, chord_mask) ==
    LET mkw == 16 * U
        mkh == 12 * U
        mgx == 4 * U
        mgy == 2 * U
        kb_w == 2 * mkw + mgx
        kb_h == 3 * mkh + 2 * mgy
        kb_ox == cx - kb_w \div 2
        kb_oy == cy - kb_h \div 2 + 6 * U
    IN  draw_6keys(kb_ox, kb_oy, mkw, mkh, mgx, mgy, MiniKeys(chord_mask, 6))

draw_direction_cell(cx, cy, ent, chord_mask, cell_w, cell_h) ==
    LET char == FieldOf(ent, chord_mask, "abc")
        num_char == FieldOf(ent, chord_mask, "num")
        symb_char == FieldOf(ent, chord_mask, "symb")
        bottom == cy + cell_h \div 2
    IN  <<Svg_rect(cx - cell_w \div 2, cy - cell_h \div 2, cell_w, cell_h,
                   "#f0f4ff", "#b0c0e0", 7 * U, 1 * U)>>
        \o CompactKeys(cx, cy, chord_mask)
        \o (IF char # <<>>
            THEN <<Svg_text(cx, cy - cell_h \div 2 + 18 * U, char,
                            font_size_for(char, 16), "#333", "middle",
                            "bold")>>
            ELSE <<>>)
        \o draw_num_symb(cx, bottom - 18 * U, bottom - 6 * U,
                         num_char, symb_char, "middle", 10, 9)

\* Variant of draw_mode_cell that shows the resolved letter of the chord
\* when it has one and the label otherwise.
draw_mode_cell_letter(cx, cy, ent, chord_mask, label, cell_w, cell_h) ==
    LET char == FieldOf(ent, chord_mask, "abc")
        num_char == FieldOf(ent, chord_mask, "num")
        symb_char == FieldOf(ent, chord_mask, "symb")
        bottom == cy + cell_h \div 2
    IN  <<Svg_rect(cx - cell_w \div 2, cy - cell_h \div 2, cell_w, cell_h,
                   "#fff8f0", "#e0c8a0", 7 * U, 1 * U)>>
        \o CompactKeys(cx, cy, chord_mask)
        \o <<Svg_text(cx, cy - cell_h \div 2 + 18 * U,
                      IF char # <<>> THEN char ELSE label, 13, "#333",
                      "middle", "bold")>>
        \o draw_num_symb(cx, bottom - 18 * U, bottom - 6 * U,
                         num_char, symb_char, "middle", 10, 9)

draw_mode_cell(cx, cy, ent, chord_mask, label, cell_w, cell_h) ==
    LET num_char == FieldOf(ent, chord_mask, "num")
        symb_char == FieldOf(ent, chord_mask, "symb")
        bottom == cy + cell_h \div 2
    IN  <<Svg_rect(cx - cell_w \div 2, cy - cell_h \div 2, cell_w, cell_h,
                   "#fff8f0", "#e0c8a0", 7 * U, 1 * U)>>
        \o CompactKeys(cx, cy, chord_mask)
        \o <<Svg_text(cx, cy - cell_h \div 2 + 18 * U, label, 13, "#333",
                      "middle", "bold")>>
        \o draw_num_symb(cx, bottom - 18 * U, bottom - 6 * U,
                         num_char, symb_char, "middle", 10, 9)

draw_control_cell(cx, cy, ent, chord_mask, label, cell_w, cell_h) ==
    LET num_char == FieldOf(ent, chord_mask, "num")
        symb_char == FieldOf(ent, chord_mask, "symb")
        bottom == cy + cell_h \div 2
    IN  <<Svg_rect(cx - cell_w \div 2, cy - cell_h \div 2, cell_w, cell_h,
                   "#f4f0ff", "#c0b0e0", 7 * U, 1 * U)>>
        \o CompactKeys(cx, cy, chord_mask)
        \o <<Svg_text(cx, cy - cell_h \div 2 + 18 * U, label, 13, "#333",
                      "middle", "bold")>>
        \o draw_num_symb(cx, bottom - 18 * U, bottom - 6 * U,
                         num_char, symb_char, "middle", 10, 9)

(***************************************************************************)
(* Main diagram assembly: generate_svg                                     *)
(***************************************************************************)
STR_Center ==
    <<"C", "e", "n", "t", "e", "r", ":", " ", "s", "i", "n", "g", "l",
      "e", " ", "k", "e", "y", "s">>
STR_InnerChord ==
    <<"I", "n", "n", "e", "r", " ", "c", "h", "o", "r", "d", ":", " ">>
STR_LeftOuter ==
    <<"L", "e", "f", "t", " ", "o", "u", "t", "e", "r", ":", " ">>
STR_RightOuter ==
    <<"R", "i", "g", "h", "t", " ", "o", "u", "t", "e", "r", ":", " ">>
STR_Directions ==
    <<"D", "i", "r", "e", "c", "t", "i", "o", "n", "s", " ", "s", "e",
      "c", "t", "i", "o", "n">>
STR_ModeSwitches ==
    <<"M", "o", "d", "e", " ", "s", "w", "i", "t", "c", "h", "e", "s">>
STR_NavLabel ==
    <<"N", "a", "v", "i", "g", "a", "t", "i", "o", "n", " ", "&", " ",
      "A", "c", "t", "i", "o", "n", "s">>
STR_ModeLabel ==
    <<"M", "o", "d", "e", " ", "S", "w", "i", "t", "c", "h", "e", "s">>
STR_ControlChords ==
    <<"5", "-", "k", "e", "y", " ", "c", "o", "n", "t", "r", "o", "l",
      " ", "c", "h", "o", "r", "d", "s">>
STR_ControlLabel ==
    <<"5", "-", "K", "e", "y", " ", "C", "o", "n", "t", "r", "o", "l",
      " ", "C", "h", "o", "r", "d", "s">>

RECURSIVE Sum(_)
Sum(q) == IF q = <<>> THEN 0 ELSE Head(q) + Sum(Tail(q))

\* Layout geometry
col_w == <<130 * U, 125 * U, 175 * U, 125 * U, 130 * U>>
row_h == <<118 * U, 140 * U, 118 * U>>
main_w == Sum(col_w)
main_h == Sum(row_h)
\* col_x[i], row_y[i] for the 0-based index i of the source
col_x == [i \in 0..(Len(col_w) - 1) |-> Sum(SubSeq(col_w, 1, i))]
row_y == [i \in 0..(Len(row_h) - 1) |-> Sum(SubSeq(row_h, 1, i))]

\* Outer panels
outer_cw == 97 * U
outer_ch == 118 * U
outer_panel_w == outer_cw * 2 + 8 * U
outer_gap == 16 * U

\* Positioning
title_h == 68 * U
main_box_x == outer_panel_w + outer_gap + 16 * U
main_box_y == title_h
main_pad == 14 * U
outer_left_x == 8 * U
outer_right_x == main_box_x + main_w + 2 * main_pad + outer_gap

\* Below section
below_gap == 28 * U
below_y == main_box_y + main_h + 2 * main_pad + below_gap

\* Control row (5-key chords) below directions/modes
ctrl_row_gap == 24 * U
dir_cw == 82 * U
dir_ch == 95 * U
dir_gx == 5 * U
dir_gy == 5 * U
dir_block_h_est == 2 * dir_ch + dir_gy
ctrl_row_y == below_y + dir_block_h_est + ctrl_row_gap

\* Total dimensions (both are whole units, so int() changes nothing)
total_w == outer_right_x + outer_panel_w + 12 * U
total_h == ctrl_row_y + dir_ch + 20 * U

\* Slot tables: <<row, col, chord>>
inner_chords == <<
    <<0, 1, BitOr(A, B)>>,
    <<0, 3, BitOr(D, E)>>,
    <<1, 0, BitOr(A, C)>>,
    <<1, 4, BitOr(D, F)>>,
    <<2, 1, BitOr(B, C)>>,
    <<2, 3, BitOr(E, F)>> >>

\* Variant of left_outer with a third key in the first chord.
left_outer_three == <<
    <<0, 0, Union(<<A, B, E>>)>>,
    <<0, 1, Union(<<A, B, E, F>>)>>,
    <<1, 0, Union(<<A, C, E, F>>)>>,
    <<1, 1, Union(<<A, C, D, E>>)>>,
    <<2, 0, BitOr(C, E)>>,
    <<2, 1, BitOr(C, D)>> >>

left_outer == <<
    <<0, 0, BitOr(A, E)>>,
    <<0, 1, Union(<<A, B, E, F>>)>>,
    <<1, 0, Union(<<A, C, E, F>>)>>,
    <<1, 1, Union(<<A, C, D, E>>)>>,
    <<2, 0, BitOr(C, E)>>,
    <<2, 1, BitOr(C, D)>> >>

right_outer == <<
    <<0, 0, Union(<<B, C, D, E>>)>>,
    <<0, 1, BitOr(B, D)>>,
    <<1, 0, Union(<<A, B, D, F>>)>>,
    <<1, 1, Union(<<B, C, D, F>>)>>,
    <<2, 0, BitOr(A, F)>>,
    <<2, 1, BitOr(B, F)>> >>

\* Variant of dir_chords with A|D repeated in the place of C|F.
dir_chords_repeat == <<
    <<0, 0, BitOr(A, D)>>,
    <<0, 1, Union(<<A, B, D, E>>)>>,
    <<1, 0, BitOr(A, D)>>,
    <<1, 1, Union(<<B, C, E, F>>)>> >>

dir_chords == <<
    <<0, 0, BitOr(A, D)>>,
    <<0, 1, Union(<<A, B, D, E>>)>>,
    <<1, 0, BitOr(C, F)>>,
    <<1, 1, Union(<<B, C, E, F>>)>> >>

\* The two direction cells flanking the 2x2 block: ABC left, DEF right.
flank_chords == <<Union(<<A, B, C>>), Union(<<D, E, F>>)>>

\* Variant of modes with the SYMB cell bound to A|C|D|E.
modes_collide == <<
    <<BitOr(B, E), <<"S", "H", "I", "F", "T">>>>,
    <<Union(<<A, C, D, E>>), <<"S", "Y", "M", "B">>>>,
    <<Union(<<A, B, C, D, E, F>>), <<"A", "B", "C", "U+21C4", "1", "2", "3">>>> >>

\* <<chord, label>>
modes == <<
    <<BitOr(B, E), <<"S", "H", "I", "F", "T">>>>,
    <<Union(<<A, C, D, F>>), <<"S", "Y", "M", "B">>>>,
    <<Union(<<A, B, C, D, E, F>>), <<"A", "B", "C", "U+21C4", "1", "2", "3">>>> >>

ctrl_chords == <<
    <<Union(<<A, B, C, D, E>>), <<"E", "s", "c">>>>,
    <<Union(<<A, B, C, D, F>>), <<"C", "t", "r", "l">>>>,
    <<Union(<<A, B, C, E, F>>), <<"A", "l", "t">>>>,
    <<Union(<<A, B, D, E, F>>), <<"U+23CE", " ", "E", "n", "t", "e", "r">>>>,
    <<Union(<<A, C, D, E, F>>), <<"U+21E5", " ", "T", "a", "b">>>>,
    <<Union(<<B, C, D, E, F>>), <<"U+2326", " ", "D", "e", "l">>>> >>

outer_v_total == main_h + 2 * main_pad
outer_v_gap == (outer_v_total - 3 * outer_ch) \div 2

dir_block_w == 2 * dir_cw + dir_gx
dir_center_x == main_box_x + main_w \div 2 + main_pad
dir_ox == dir_center_x - dir_block_w \div 2
dir_block_h == 2 * dir_ch + dir_gy
dir_mid_y == below_y + dir_block_h \div 2
abc_cx == dir_ox - dir_cw \div 2 - 12 * U
def_cx == dir_ox + dir_block_w + dir_cw \div 2 + 12 * U

mode_cw == 95 * U
mode_gap == 8 * U
\* Variant of mode_start_x measured from the center of the DEF cell
\* instead of its right edge.
mode_start_x_from_center == def_cx + 28 * U
mode_start_x == def_cx + dir_cw \div 2 + 28 * U

ctrl_cw == 95 * U
ctrl_gap == 8 * U
ctrl_total_w == Len(ctrl_chords) * ctrl_cw + (Len(ctrl_chords) - 1) * ctrl_gap
ctrl_start_x == main_box_x + main_w \div 2 + main_pad - ctrl_total_w \div 2

\* One renderer call: the primitives emitted before it (a comment, or
\* nothing) and the primitives the renderer emits.
Cell(renderer, chord, before, prims) ==
    [renderer |-> renderer, chord |-> chord, before |-> before,
     prims |-> prims]

\* Append the cells to the canvas in order, recording for each renderer
\* call the range of parts it appended.
RECURSIVE DrawCells(_, _, _)
DrawCells(ps, cs, cells) ==
    IF cells = <<>> THEN [parts |-> ps, calls |-> cs]
    ELSE LET c == Head(cells)
             first == Len(ps) + Len(c.before) + 1
             ps2 == ps \o c.before \o c.prims
         IN  DrawCells(ps2,
                       Append(cs, [renderer |-> c.renderer,
                                   chord |-> c.chord,
                                   from |-> first, to |-> Len(ps2)]),
                       Tail(cells))

UnchangedArgs == UNCHANGED <<layout_id, layout_name, variant, entries>>
UnchangedFn == UNCHANGED <<fn, arg, res>>
UnchangedMain ==
    UNCHANGED <<argv, fsys0, fsys, files, printed, written, mpc>>

\* generate_svg has not been called.
NoArgs ==
    /\ layout_id = <<>>
    /\ layout_name = <<>>
    /\ variant = <<>>
    /\ entries = <<>>
    /\ parts = <<>>
    /\ calls = <<>>
    /\ doc = <<>>
    /\ invoked = <<>>

\* main is not running.
NoMain ==
    /\ argv = <<>>
    /\ fsys0 = <<>>
    /\ fsys = <<>>
    /\ files = <<>>
    /\ printed = <<>>
    /\ written = <<>>
    /\ mpc = "none"

\* svg = Svg()
Begin ==
    /\ pc = "idle"
    /\ parts' = Svg_init
    /\ calls' = <<>>
    /\ pc' = "title"
    /\ UNCHANGED <<doc, invoked>>
    /\ UnchangedArgs /\ UnchangedFn /\ UnchangedMain

\* title = layout_name or layout_id; if variant: title += ...; svg.text.
\* With a variant and neither a name nor an id, += raises TypeError: the
\* call ends there (pc "raised") and so does a caller that does not catch
\* it.
DrawTitle ==
    /\ pc = "title"
    /\ LET base == IF layout_name \notin {None, <<>>}
                   THEN layout_name ELSE layout_id
           title == IF variant # <<>>
                    THEN base \o <<" ", "(">> \o variant \o <<")">>
                    ELSE base
       IN  IF variant # <<>> /\ base = None
           THEN parts' = parts /\ pc' = "raised"
           ELSE /\ parts' = Append(parts,
                                   Svg_text(total_w \div 2, 30 * U, title,
                                            22, "#222", "middle", "bold"))
                /\ pc' = "box"
    /\ UNCHANGED <<calls, doc, invoked>>
    /\ UnchangedArgs /\ UnchangedFn /\ UnchangedMain

DrawMainBox ==
    /\ pc = "box"
    /\ LET bx == main_box_x - main_pad
           by == main_box_y - main_pad
           bw == main_w + 2 * main_pad
           bh == main_h + 2 * main_pad
       IN  parts' = Append(parts, Svg_rect(bx, by, bw, bh, "white", "#999",
                                           16 * U, 2 * U))
    /\ pc' = "center"
    /\ UNCHANGED <<calls, doc, invoked>>
    /\ UnchangedArgs /\ UnchangedFn /\ UnchangedMain

DrawCenter ==
    /\ pc = "center"
    /\ LET ccx == main_box_x + col_x[2] + col_w[3] \div 2
           ccy == main_box_y + row_y[1] + row_h[2] \div 2
           r == DrawCells(parts, calls,
                          <<Cell("center", 0, <<Svg_comment(STR_Center)>>,
                                 draw_center_cell(ccx, ccy, entries))>>)
       IN  parts' = r.parts /\ calls' = r.calls
    /\ pc' = "inner"
    /\ UNCHANGED <<doc, invoked>>
    /\ UnchangedArgs /\ UnchangedFn /\ UnchangedMain

DrawInner ==
    /\ pc = "inner"
    /\ LET cell(t) ==
               LET icx == main_box_x + col_x[t[2]] + col_w[t[2] + 1] \div 2
                   icy == main_box_y + row_y[t[1]] + row_h[t[1] + 1] \div 2
               IN  Cell("inner", t[3],
                        <<Svg_comment(STR_InnerChord \o chord_label(t[3]))>>,
                        draw_inner_chord_cell(icx, icy, entries, t[3]))
           r == DrawCells(parts, calls,
                          [i \in DOMAIN inner_chords |-> cell(inner_chords[i])])
       IN  parts' = r.parts /\ calls' = r.calls
    /\ pc' = "left_outer"
    /\ UNCHANGED <<doc, invoked>>
    /\ UnchangedArgs /\ UnchangedFn /\ UnchangedMain

OuterCell(panel_x, tag, t) ==
    LET ocx == panel_x + t[2] * (outer_cw + 8 * U) + outer_cw \div 2
        ocy == main_box_y - main_pad + t[1] * (outer_ch + outer_v_gap)
               + outer_ch \div 2
    IN  Cell("outer", t[3], <<Svg_comment(tag \o chord_label(t[3]))>>,
             draw_outer_chord_cell(ocx, ocy, entries, t[3],
                                   outer_cw - 2 * U, outer_ch - 2 * U))

DrawLeftOuter ==
    /\ pc = "left_outer"
    /\ LET r == DrawCells(parts, calls,
                   [i \in DOMAIN left_outer |->
                       OuterCell(outer_left_x, STR_LeftOuter, left_outer[i])])
       IN  parts' = r.parts /\ calls' = r.calls
    /\ pc' = "right_outer"
    /\ UNCHANGED <<doc, invoked>>
    /\ UnchangedArgs /\ UnchangedFn /\ UnchangedMain

DrawRightOuter ==
    /\ pc = "right_outer"
    /\ LET r == DrawCells(parts, calls,
                   [i \in DOMAIN right_outer |->
                       OuterCell(outer_right_x, STR_RightOuter, right_outer[i])])
       IN  parts' = r.parts /\ calls' = r.calls
    /\ pc' = "directions"
    /\ UNCHANGED <<doc, invoked>>
    /\ UnchangedArgs /\ UnchangedFn /\ UnchangedMain

DrawDirections ==
    /\ pc = "directions"
    /\ LET grid(t) ==
               LET dcx == dir_ox + t[2] * (dir_cw + dir_gx) + dir_cw \div 2
                   dcy == below_y + t[1] * (dir_ch + dir_gy) + dir_ch \div 2
               IN  Cell("direction", t[3], <<>>,
                        draw_direction_cell(dcx, dcy, entries, t[3],
                                            dir_cw, dir_ch))
           flank(x, chord) ==
               Cell("direction", chord, <<>>,
                    draw_direction_cell(x, dir_mid_y, entries, chord,
                                        dir_cw, dir_ch))
           r == DrawCells(Append(parts, Svg_comment(STR_Directions)), calls,
                          [i \in DOMAIN dir_chords |-> grid(dir_chords[i])]
                          \o <<flank(abc_cx, flank_chords[1]),
                               flank(def_cx, flank_chords[2])>>)
       IN  parts' = r.parts /\ calls' = r.calls
    /\ pc' = "modes"
    /\ UNCHANGED <<doc, invoked>>
    /\ UnchangedArgs /\ UnchangedFn /\ UnchangedMain

DrawModes ==
    /\ pc = "modes"
    /\ LET cell(i) ==
               LET mcx == mode_start_x + (i - 1) * (mode_cw + mode_gap)
                          + mode_cw \div 2
               IN  Cell("mode", modes[i][1], <<>>,
                        draw_mode_cell(mcx, dir_mid_y, entries, modes[i][1],
                                       modes[i][2], mode_cw, dir_ch))
           r == DrawCells(Append(parts, Svg_comment(STR_ModeSwitches)), calls,
                          [i \in DOMAIN modes |-> cell(i)])
       IN  parts' = r.parts /\ calls' = r.calls
    /\ pc' = "labels"
    /\ UNCHANGED <<doc, invoked>>
    /\ UnchangedArgs /\ UnchangedFn /\ UnchangedMain

DrawSectionLabels ==
    /\ pc = "labels"
    /\ LET nav_center_x == (abc_cx + def_cx) \div 2 IN
       parts' = parts \o
           <<Svg_text(nav_center_x, below_y - 10 * U, STR_NavLabel, 10,
                      "#aaa", "middle", "normal"),
             Svg_text(mode_start_x + (3 * mode_cw + 2 * mode_gap) \div 2,
                      below_y - 10 * U, STR_ModeLabel, 10,
                      "#aaa", "middle", "normal")>>
    /\ pc' = "control"
    /\ UNCHANGED <<calls, doc, invoked>>
    /\ UnchangedArgs /\ UnchangedFn /\ UnchangedMain

DrawControl ==
    /\ pc = "control"
    /\ LET cell(i) ==
               LET ccx == ctrl_start_x + (i - 1) * (ctrl_cw + ctrl_gap)
                          + ctrl_cw \div 2
                   ccy == ctrl_row_y + dir_ch \div 2
               IN  Cell("control", ctrl_chords[i][1], <<>>,
                        draw_control_cell(ccx, ccy, entries,
                                          ctrl_chords[i][1], ctrl_chords[i][2],
                                          ctrl_cw, dir_ch))
           r == DrawCells(parts \o
                          <<Svg_comment(STR_ControlChords),
                            Svg_text(ctrl_start_x + ctrl_total_w \div 2,
                                     ctrl_row_y - 8 * U, STR_ControlLabel, 10,
                                     "#aaa", "middle", "normal")>>,
                          calls, [i \in DOMAIN ctrl_chords |-> cell(i)])
       IN  parts' = r.parts /\ calls' = r.calls
    /\ pc' = "build"
    /\ UNCHANGED <<doc, invoked>>
    /\ UnchangedArgs /\ UnchangedFn /\ UnchangedMain

\* return svg.build(total_w, total_h)
Build ==
    /\ pc = "build"
    /\ doc' = Append(doc, Svg_build(parts, total_w, total_h))
    /\ invoked' = Append(invoked,
                         <<layout_id, layout_name, entries, variant>>)
    /\ pc' = "done"
    /\ UNCHANGED <<parts, calls>>
    /\ UnchangedArgs /\ UnchangedFn /\ UnchangedMain

GenerateSvg ==
    \/ Begin
    \/ DrawTitle
    \/ DrawMainBox
    \/ DrawCenter
    \/ DrawInner
    \/ DrawLeftOuter
    \/ DrawRightOuter
    \/ DrawDirections
    \/ DrawModes
    \/ DrawSectionLabels
    \/ DrawControl
    \/ Build

(***************************************************************************)
(* Layout tables handed to generate_svg                                    *)
(***************************************************************************)
LongLen == 81      \* length of the longest raw field value

RECURSIVE Rep(_, _)
Rep(c, n) == IF n = 0 THEN <<>> ELSE Append(Rep(c, n - 1), c)

STR_backspace == <<"b", "a", "c", "k", "s", "p", "a", "c", "e">>
STR_esc == <<"e", "s", "c">>

AbcValues == {<<>>, <<"t">>, STR_backspace, STR_esc, Rep("x", LongLen)}
NumValues == {<<>>, <<"1">>}
SymbValues == {<<>>, <<"#">>}

\* The dict parse_layout builds for one <entry>; the renderers read the
\* abc, num and symb fields only.
Entry(abc, num, symb) ==
    [abc |-> abc, abc_shift |-> <<>>, num |-> num, num_shift |-> <<>>,
     symb |-> symb, symb_shift |-> <<>>]

EntryValues ==
    {Entry(a, n, y) : a \in AbcValues, n \in NumValues, y \in SymbValues}

DefaultEntry == Entry(<<"t">>, <<"1">>, <<"#">>)

\* A table over a set of chords with a default entry everywhere.
Uniform(cs) == [c \in cs |-> DefaultEntry]

\* The tables: the empty one, every table with one entry, the fully
\* populated table with one chord missing, and the fully populated table
\* with one chord bound to any entry.
Layouts ==
    {Uniform({})}
    \cup {[c \in {p} |-> e] : p \in Chords, e \in EntryValues}
    \cup {Uniform(Chords \ {p}) : p \in Chords}
    \cup {[c \in Chords |-> IF c = p THEN e ELSE DefaultEntry] :
              p \in Chords, e \in EntryValues}

STR_en == <<"e", "n">>
STR_English == <<"E", "n", "g", "l", "i", "s", "h">>
STR_Optimized == <<"O", "p", "t", "i", "m", "i", "z", "e", "d">>

STR_Standard == <<"S", "t", "a", "n", "d", "a", "r", "d">>

\* <<layout_id, layout_name, variant>>
TitleArgs ==
    {<<STR_en, STR_English, STR_Standard>>,
     <<STR_en, STR_English, <<>> >>,
     <<STR_en, <<>>, STR_Optimized>>,
     <<STR_en, <<>>, <<>> >>}

Init ==
    /\ \/ /\ layout_id = STR_en
          /\ layout_name = STR_English
          /\ variant = STR_Optimized
          /\ entries \in Layouts
       \/ /\ \E t \in TitleArgs :
                 layout_id = t[1] /\ layout_name = t[2] /\ variant = t[3]
          /\ entries \in {Uniform({}), Uniform(Chords)}
    /\ parts = <<>>
    /\ calls = <<>>
    /\ doc = <<>>
    /\ invoked = <<>>
    /\ pc = "idle"
    /\ fn = "" /\ arg = <<>> /\ res = <<>>
    /\ NoMain

Next == GenerateSvg

Spec == Init /\ [][Next]_vars

(***************************************************************************)
(* A caller that invokes generate_svg several times                        *)
(***************************************************************************)
MaxInvocations == 3    \* most documents one caller asks for

\* <<layout_id, layout_name, entries, variant>>: a full table; the same
\* with another variant, without a name, with another id, with another
\* entry for one chord; and the arguments the title cannot be built from.
CallArgs ==
    {<<STR_en, STR_English, Uniform(Chords), STR_Optimized>>,
     <<STR_en, STR_English, Uniform(Chords), STR_Standard>>,
     <<STR_en, <<>>, Uniform(Chords), STR_Optimized>>,
     <<<<"d", "e">>, STR_English, Uniform(Chords), STR_Optimized>>,
     <<STR_en, STR_English,
       [Uniform(Chords) EXCEPT ![BitOr(A, B)] = Entry(STR_esc, <<>>, <<>>)],
       STR_Optimized>>,
     <<None, None, Uniform({}), STR_Optimized>>}

\* generate_svg(layout_id, layout_name, entries, variant), called by a
\* caller other than main (mpc = "none") after the call before returned
\* or after it caught the TypeError of the call before.
Call_generate_svg ==
    /\ pc \in {"done", "raised"} /\ mpc = "none"
    /\ Len(doc) < MaxInvocations
    /\ \E a \in CallArgs :
           /\ layout_id' = a[1]
           /\ layout_name' = a[2]
           /\ entries' = a[3]
           /\ variant' = a[4]
    /\ pc' = "idle"
    /\ UNCHANGED <<parts, calls, doc, invoked>>
    /\ UnchangedFn /\ UnchangedMain

InitCalls ==
    /\ \E a \in CallArgs :
           /\ layout_id = a[1]
           /\ layout_name = a[2]
           /\ entries = a[3]
           /\ variant = a[4]
    /\ parts = <<>>
    /\ calls = <<>>
    /\ doc = <<>>
    /\ invoked = <<>>
    /\ pc = "idle"
    /\ fn = "" /\ arg = <<>> /\ res = <<>>
    /\ NoMain

NextCalls == Call_generate_svg \/ GenerateSvg

SpecCalls == InitCalls /\ [][NextCalls]_vars

(***************************************************************************)
(* Batch driver: main                                                      *)
(***************************************************************************)
\* s.startswith(p), s.endswith(p), p in s
startswith(s, p) == Len(s) >= Len(p) /\ SubSeq(s, 1, Len(p)) = p

endswith(s, p) ==
    Len(s) >= Len(p) /\ SubSeq(s, Len(s) - Len(p) + 1, Len(s)) = p

contains(s, p) ==
    \E i \in 1..(Len(s) - Len(p) + 1) : SubSeq(s, i, i + Len(p) - 1) = p

\* s.replace(old, new) for a non-empty old: every occurrence, left to right
RECURSIVE replace(_, _, _)
replace(s, old, new) ==
    IF Len(s) < Len(old) THEN s
    ELSE IF startswith(s, old)
         THEN new \o replace(SubSeq(s, Len(old) + 1, Len(s)), old, new)
         ELSE <<Head(s)>> \o replace(Tail(s), old, new)

\* Position of the last "/" of p, 0 when it has none.
rfind_sep(p) ==
    LET at == {i \in DOMAIN p : p[i] = "/"} IN
    IF at = {} THEN 0 ELSE CHOOSE i \in at : \A j \in at : j <= i

\* os.path.isabs, os.path.join, os.path.basename, os.path.dirname (posix)
isabs(p) == startswith(p, <<"/">>)

join(a, b) ==
    IF isabs(b) THEN b
    ELSE IF a = <<>> \/ endswith(a, <<"/">>) THEN a \o b
    ELSE a \o <<"/">> \o b

basename(p) == SubSeq(p, rfind_sep(p) + 1, Len(p))

RECURSIVE rstrip_sep(_)
rstrip_sep(p) ==
    IF p # <<>> /\ p[Len(p)] = "/" THEN rstrip_sep(SubSeq(p, 1, Len(p) - 1))
    ELSE p

dirname(p) ==
    LET head == SubSeq(p, 1, rfind_sep(p)) IN
    IF head # <<>> /\ \E i \in DOMAIN head : head[i] # "/"
    THEN rstrip_sep(head) ELSE head

\* Code points of the characters of file names.
ord ==
    "-" :> 45 @@ "." :> 46 @@ "/" :> 47 @@ "_" :> 95 @@ "a" :> 97 @@
    "b" :> 98 @@ "c" :> 99 @@ "d" :> 100 @@ "e" :> 101 @@ "f" :> 102 @@
    "g" :> 103 @@ "h" :> 104 @@ "i" :> 105 @@ "j" :> 106 @@ "k" :> 107 @@
    "l" :> 108 @@ "m" :> 109 @@ "n" :> 110 @@ "o" :> 111 @@ "p" :> 112 @@
    "q" :> 113 @@ "r" :> 114 @@ "s" :> 115 @@ "t" :> 116 @@ "u" :> 117 @@
    "v" :> 118 @@ "w" :> 119 @@ "x" :> 120 @@ "y" :> 121 @@ "z" :> 122

\* a < b for str: the first differing code point decides, a proper prefix
\* is smaller.
RECURSIVE str_lt(_, _)
str_lt(a, b) ==
    IF b = <<>> THEN FALSE
    ELSE IF a = <<>> THEN TRUE
    ELSE IF Head(a) # Head(b) THEN ord[Head(a)] < ord[Head(b)]
    ELSE str_lt(Tail(a), Tail(b))

\* sorted(...) of a collection of distinct strings
RECURSIVE sorted(_)
sorted(ss) ==
    IF ss = {} THEN <<>>
    ELSE LET m == CHOOSE a \in ss : \A b \in ss \ {a} : str_lt(a, b)
         IN  <<m>> \o sorted(ss \ {m})

STR_file ==
    <<"/", "r", "/", "d", "o", "c", "s", "/", "g", "e", "n", "e", "r", "a",
      "t", "e", "_", "d", "i", "a", "g", "r", "a", "m", "s", ".", "p", "y">>
STR_app == <<"a", "p", "p">>
STR_src == <<"s", "r", "c">>
STR_main == <<"m", "a", "i", "n">>
STR_assets == <<"a", "s", "s", "e", "t", "s">>
STR_layouts == <<"l", "a", "y", "o", "u", "t", "s">>
STR_xml == <<".", "x", "m", "l">>
STR_svg == <<".", "s", "v", "g">>
STR_dash_standard == <<"-", "s", "t", "a", "n", "d", "a", "r", "d">>

\* layouts_dir and output_dir of main
layouts_dir ==
    LET script_dir == dirname(STR_file)
        project_root == dirname(script_dir)
    IN  join(join(join(join(join(project_root, STR_app), STR_src),
                       STR_main), STR_assets), STR_layouts)
output_dir ==
    LET script_dir == dirname(STR_file) IN join(script_dir, STR_layouts)

\* os.path.exists(path), os.listdir(d) on the files fs; the files are
\* regular files, a directory is not named
exists(fs, path) == path \in DOMAIN fs

listdir(fs, d) == {basename(p) : p \in {q \in DOMAIN fs : dirname(q) = d}}

\* The decimal digits (Unicode category Nd), the ten of each script in
\* the order of their values 0 to 9
DECIMAL_DIGITS ==
    <<
      <<"0", "1", "2", "3", "4", "5", "6", "7", "8", "9">>,
      <<"U+0660", "U+0661", "U+0662", "U+0663", "U+0664", "U+0665",
        "U+0666", "U+0667", "U+0668", "U+0669">>,
      <<"U+06F0", "U+06F1", "U+06F2", "U+06F3", "U+06F4", "U+06F5",
        "U+06F6", "U+06F7", "U+06F8", "U+06F9">>,
      <<"U+07C0", "U+07C1", "U+07C2", "U+07C3", "U+07C4", "U+07C5",
        "U+07C6", "U+07C7", "U+07C8", "U+07C9">>,
      <<"U+0966", "U+0967", "U+0968", "U+0969", "U+096A", "U+096B",
        "U+096C", "U+096D", "U+096E", "U+096F">>,
      <<"U+09E6", "U+09E7", "U+09E8", "U+09E9", "U+09EA", "U+09EB",
        "U+09EC", "U+09ED", "U+09EE", "U+09EF">>,
      <<"U+0A66", "U+0A67", "U+0A68", "U+0A69", "U+0A6A", "U+0A6B",
        "U+0A6C", "U+0A6D", "U+0A6E", "U+0A6F">>,
      <<"U+0AE6", "U+0AE7", "U+0AE8", "U+0AE9", "U+0AEA", "U+0AEB",
        "U+0AEC", "U+0AED", "U+0AEE", "U+0AEF">>,
      <<"U+0B66", "U+0B67", "U+0B68", "U+0B69", "U+0B6A", "U+0B6B",
        "U+0B6C", "U+0B6D", "U+0B6E", "U+0B6F">>,
      <<"U+0BE6", "U+0BE7", "U+0BE8", "U+0BE9", "U+0BEA", "U+0BEB",
        "U+0BEC", "U+0BED", "U+0BEE", "U+0BEF">>,
      <<"U+0C66", "U+0C67", "U+0C68", "U+0C69", "U+0C6A", "U+0C6B",
        "U+0C6C", "U+0C6D", "U+0C6E", "U+0C6F">>,
      <<"U+0CE6", "U+0CE7", "U+0CE8", "U+0CE9", "U+0CEA", "U+0CEB",
        "U+0CEC", "U+0CED", "U+0CEE", "U+0CEF">>,
      <<"U+0D66", "U+0D67", "U+0D68", "U+0D69", "U+0D6A", "U+0D6B",
        "U+0D6C", "U+0D6D", "U+0D6E", "U+0D6F">>,
      <<"U+0DE6", "U+0DE7", "U+0DE8", "U+0DE9", "U+0DEA", "U+0DEB",
        "U+0DEC", "U+0DED", "U+0DEE", "U+0DEF">>,
      <<"U+0E50", "U+0E51", "U+0E52", "U+0E53", "U+0E54", "U+0E55",
        "U+0E56", "U+0E57", "U+0E58", "U+0E59">>,
      <<"U+0ED0", "U+0ED1", "U+0ED2", "U+0ED3", "U+0ED4", "U+0ED5",
        "U+0ED6", "U+0ED7", "U+0ED8", "U+0ED9">>,
      <<"U+0F20", "U+0F21", "U+0F22", "U+0F23", "U+0F24", "U+0F25",
        "U+0F26", "U+0F27", "U+0F28", "U+0F29">>,
      <<"U+1040", "U+1041", "U+1042", "U+1043", "U+1044", "U+1045",
        "U+1046", "U+1047", "U+1048", "U+1049">>,
      <<"U+1090", "U+1091", "U+1092", "U+1093", "U+1094", "U+1095",
        "U+1096", "U+1097", "U+1098", "U+1099">>,
      <<"U+17E0", "U+17E1", "U+17E2", "U+17E3", "U+17E4", "U+17E5",
        "U+17E6", "U+17E7", "U+17E8", "U+17E9">>,
      <<"U+1810", "U+1811", "U+1812", "U+1813", "U+1814", "U+1815",
        "U+1816", "U+1817", "U+1818", "U+1819">>,
      <<"U+1946", "U+1947", "U+1948", "U+1949", "U+194A", "U+194B",
        "U+194C", "U+194D", "U+194E", "U+194F">>,
      <<"U+19D0", "U+19D1", "U+19D2", "U+19D3", "U+19D4", "U+19D5",
        "U+19D6", "U+19D7", "U+19D8", "U+19D9">>,
      <<"U+1A80", "U+1A81", "U+1A82", "U+1A83", "U+1A84", "U+1A85",
        "U+1A86", "U+1A87", "U+1A88", "U+1A89">>,
      <<"U+1A90", "U+1A91", "U+1A92", "U+1A93", "U+1A94", "U+1A95",
        "U+1A96", "U+1A97", "U+1A98", "U+1A99">>,
      <<"U+1B50", "U+1B51", "U+1B52", "U+1B53", "U+1B54", "U+1B55",
        "U+1B56", "U+1B57", "U+1B58", "U+1B59">>,
      <<"U+1BB0", "U+1BB1", "U+1BB2", "U+1BB3", "U+1BB4", "U+1BB5",
        "U+1BB6", "U+1BB7", "U+1BB8", "U+1BB9">>,
      <<"U+1C40", "U+1C41", "U+1C42", "U+1C43", "U+1C44", "U+1C45",
        "U+1C46", "U+1C47", "U+1C48", "U+1C49">>,
      <<"U+1C50", "U+1C51", "U+1C52", "U+1C53", "U+1C54", "U+1C55",
        "U+1C56", "U+1C57", "U+1C58", "U+1C59">>,
      <<"U+A620", "U+A621", "U+A622", "U+A623", "U+A624", "U+A625",
        "U+A626", "U+A627", "U+A628", "U+A629">>,
      <<"U+A8D0", "U+A8D1", "U+A8D2", "U+A8D3", "U+A8D4", "U+A8D5",
        "U+A8D6", "U+A8D7", "U+A8D8", "U+A8D9">>,
      <<"U+A900", "U+A901", "U+A902", "U+A903", "U+A904", "U+A905",
        "U+A906", "U+A907", "U+A908", "U+A909">>,
      <<"U+A9D0", "U+A9D1", "U+A9D2", "U+A9D3", "U+A9D4", "U+A9D5",
        "U+A9D6", "U+A9D7", "U+A9D8", "U+A9D9">>,
      <<"U+A9F0", "U+A9F1", "U+A9F2", "U+A9F3", "U+A9F4", "U+A9F5",
        "U+A9F6", "U+A9F7", "U+A9F8", "U+A9F9">>,
      <<"U+AA50", "U+AA51", "U+AA52", "U+AA53", "U+AA54", "U+AA55",
        "U+AA56", "U+AA57", "U+AA58", "U+AA59">>,
      <<"U+ABF0", "U+ABF1", "U+ABF2", "U+ABF3", "U+ABF4", "U+ABF5",
        "U+ABF6", "U+ABF7", "U+ABF8", "U+ABF9">>,
      <<"U+FF10", "U+FF11", "U+FF12", "U+FF13", "U+FF14", "U+FF15",
        "U+FF16", "U+FF17", "U+FF18", "U+FF19">>,
      <<"U+104A0", "U+104A1", "U+104A2", "U+104A3", "U+104A4", "U+104A5",
        "U+104A6", "U+104A7", "U+104A8", "U+104A9">>,
      <<"U+10D30", "U+10D31", "U+10D32", "U+10D33", "U+10D34", "U+10D35",
        "U+10D36", "U+10D37", "U+10D38", "U+10D39">>,
      <<"U+11066", "U+11067", "U+11068", "U+11069", "U+1106A", "U+1106B",
        "U+1106C", "U+1106D", "U+1106E", "U+1106F">>,
      <<"U+110F0", "U+110F1", "U+110F2", "U+110F3", "U+110F4", "U+110F5",
        "U+110F6", "U+110F7", "U+110F8", "U+110F9">>,
      <<"U+11136", "U+11137", "U+11138", "U+11139", "U+1113A", "U+1113B",
        "U+1113C", "U+1113D", "U+1113E", "U+1113F">>,
      <<"U+111D0", "U+111D1", "U+111D2", "U+111D3", "U+111D4", "U+111D5",
        "U+111D6", "U+111D7", "U+111D8", "U+111D9">>,
      <<"U+112F0", "U+112F1", "U+112F2", "U+112F3", "U+112F4", "U+112F5",
        "U+112F6", "U+112F7", "U+112F8", "U+112F9">>,
      <<"U+11450", "U+11451", "U+11452", "U+11453", "U+11454", "U+11455",
        "U+11456", "U+11457", "U+11458", "U+11459">>,
      <<"U+114D0", "U+114D1", "U+114D2", "U+114D3", "U+114D4", "U+114D5",
        "U+114D6", "U+114D7", "U+114D8", "U+114D9">>,
      <<"U+11650", "U+11651", "U+11652", "U+11653", "U+11654", "U+11655",
        "U+11656", "U+11657", "U+11658", "U+11659">>,
      <<"U+116C0", "U+116C1", "U+116C2", "U+116C3", "U+116C4", "U+116C5",
        "U+116C6", "U+116C7", "U+116C8", "U+116C9">>,
      <<"U+11730", "U+11731", "U+11732", "U+11733", "U+11734", "U+11735",
        "U+11736", "U+11737", "U+11738", "U+11739">>,
      <<"U+118E0", "U+118E1", "U+118E2", "U+118E3", "U+118E4", "U+118E5",
        "U+118E6", "U+118E7", "U+118E8", "U+118E9">>,
      <<"U+11950", "U+11951", "U+11952", "U+11953", "U+11954", "U+11955",
        "U+11956", "U+11957", "U+11958", "U+11959">>,
      <<"U+11C50", "U+11C51", "U+11C52", "U+11C53", "U+11C54", "U+11C55",
        "U+11C56", "U+11C57", "U+11C58", "U+11C59">>,
      <<"U+11D50", "U+11D51", "U+11D52", "U+11D53", "U+11D54", "U+11D55",
        "U+11D56", "U+11D57", "U+11D58", "U+11D59">>,
      <<"U+11DA0", "U+11DA1", "U+11DA2", "U+11DA3", "U+11DA4", "U+11DA5",
        "U+11DA6", "U+11DA7", "U+11DA8", "U+11DA9">>,
      <<"U+16A60", "U+16A61", "U+16A62", "U+16A63", "U+16A64", "U+16A65",
        "U+16A66", "U+16A67", "U+16A68", "U+16A69">>,
      <<"U+16AC0", "U+16AC1", "U+16AC2", "U+16AC3", "U+16AC4", "U+16AC5",
        "U+16AC6", "U+16AC7", "U+16AC8", "U+16AC9">>,
      <<"U+16B50", "U+16B51", "U+16B52", "U+16B53", "U+16B54", "U+16B55",
        "U+16B56", "U+16B57", "U+16B58", "U+16B59">>,
      <<"U+1D7CE", "U+1D7CF", "U+1D7D0", "U+1D7D1", "U+1D7D2", "U+1D7D3",
        "U+1D7D4", "U+1D7D5", "U+1D7D6", "U+1D7D7">>,
      <<"U+1D7D8", "U+1D7D9", "U+1D7DA", "U+1D7DB", "U+1D7DC", "U+1D7DD",
        "U+1D7DE", "U+1D7DF", "U+1D7E0", "U+1D7E1">>,
      <<"U+1D7E2", "U+1D7E3", "U+1D7E4", "U+1D7E5", "U+1D7E6", "U+1D7E7",
        "U+1D7E8", "U+1D7E9", "U+1D7EA", "U+1D7EB">>,
      <<"U+1D7EC", "U+1D7ED", "U+1D7EE", "U+1D7EF", "U+1D7F0", "U+1D7F1",
        "U+1D7F2", "U+1D7F3", "U+1D7F4", "U+1D7F5">>,
      <<"U+1D7F6", "U+1D7F7", "U+1D7F8", "U+1D7F9", "U+1D7FA", "U+1D7FB",
        "U+1D7FC", "U+1D7FD", "U+1D7FE", "U+1D7FF">>,
      <<"U+1E140", "U+1E141", "U+1E142", "U+1E143", "U+1E144", "U+1E145",
        "U+1E146", "U+1E147", "U+1E148", "U+1E149">>,
      <<"U+1E2F0", "U+1E2F1", "U+1E2F2", "U+1E2F3", "U+1E2F4", "U+1E2F5",
        "U+1E2F6", "U+1E2F7", "U+1E2F8", "U+1E2F9">>,
      <<"U+1E950", "U+1E951", "U+1E952", "U+1E953", "U+1E954", "U+1E955",
        "U+1E956", "U+1E957", "U+1E958", "U+1E959">>,
      <<"U+1FBF0", "U+1FBF1", "U+1FBF2", "U+1FBF3", "U+1FBF4", "U+1FBF5",
        "U+1FBF6", "U+1FBF7", "U+1FBF8", "U+1FBF9">>
    >>

\* The value of a decimal digit
digit ==
    [c \in UNION {Range(DECIMAL_DIGITS[b]) : b \in DOMAIN DECIMAL_DIGITS} |->
        (CHOOSE v \in 1..10 :
             \E b \in DOMAIN DECIMAL_DIGITS : DECIMAL_DIGITS[b][v] = c) - 1]

\* The value of a numeral of decimal digits
RECURSIVE int(_)
int(s) ==
    IF s = <<>> THEN 0
    ELSE 10 * int(SubSeq(s, 1, Len(s) - 1)) + digit[s[Len(s)]]

\* int(x): None raises TypeError.  A string is a numeral when, between
\* whitespace (that of str.isspace but for U+001C to U+001F), it is an
\* optional sign and decimal digits that may have single underscores
\* between them; any other string raises ValueError.
to_int(x) ==
    LET space == WHITESPACE \ {"U+001C", "U+001D", "U+001E", "U+001F"}
        keep == {i \in DOMAIN x : x[i] \notin space}
        t == IF keep = {} THEN <<>>
             ELSE SubSeq(x, CHOOSE i \in keep : \A j \in keep : i <= j,
                            CHOOSE i \in keep : \A j \in keep : j <= i)
        signed == t # <<>> /\ t[1] \in {"+", "-"}
        body == IF signed THEN Tail(t) ELSE t
        numeral ==
            /\ body # <<>>
            /\ \A i \in DOMAIN body : body[i] \in DOMAIN digit \cup {"_"}
            /\ body[1] # "_" /\ body[Len(body)] # "_"
            /\ \A i \in 1..(Len(body) - 1) :
                   ~(body[i] = "_" /\ body[i + 1] = "_")
        value == int(SelectSeq(body, LAMBDA c : c # "_"))
    IN  IF x = None THEN [error |-> "TypeError", value |-> 0]
        ELSE IF ~numeral THEN [error |-> "ValueError", value |-> 0]
        ELSE [error |-> "",
              value |-> IF signed /\ t[1] = "-" THEN 0 - value ELSE value]

\* el.get(k, ''): an element is the function from its attribute names to
\* their values
get(el, k) == IF k \in DOMAIN el THEN el[k] ELSE <<>>

\* The entries dict after the <entry> elements els were read in order; a
\* later element of the same chord replaces the earlier one.  The loop
\* ends at the first element whose chord attribute is missing (el.get
\* gives None) or no numeral: int raises, error names the exception.
RECURSIVE parse_entries(_)
parse_entries(els) ==
    IF els = <<>> THEN [error |-> "", entries |-> <<>>]
    ELSE LET el == els[Len(els)]
             before == parse_entries(SubSeq(els, 1, Len(els) - 1))
             e == Entry(get(el, "abc"), get(el, "num"), get(el, "symb"))
             ch == to_int(IF "chord" \in DOMAIN el THEN el["chord"]
                          ELSE None)
         IN  IF before.error # "" THEN before
             ELSE IF ch.error # "" THEN [before EXCEPT !.error = ch.error]
             ELSE [before EXCEPT !.entries =
                      [c \in (DOMAIN @ \ {ch.value}) |-> @[c]]
                      @@ (ch.value :>
                             [e EXCEPT
                                 !.abc_shift = get(el, "abc_shift"),
                                 !.num_shift = get(el, "num_shift"),
                                 !.symb_shift = get(el, "symb_shift")])]

\* parse_layout(path) of an XML file: the root's id and name attributes
\* (root.get gives None for an attribute the root does not have) and the
\* entries of its <entry> children; error names the exception raised
\* while the entries were read, "" when none was
parse_layout(fs, path) ==
    LET root == fs[path]
        root_get(k) == IF k \in DOMAIN root.attrs THEN root.attrs[k]
                       ELSE None
        parsed == parse_entries(root.entry)
    IN  [error |-> parsed.error,
         layout_id |-> root_get("id"),
         layout_name |-> root_get("name"),
         entries |-> parsed.entries]

\* The file that holds the document d, as ET.parse reads it back: the root
\* <svg> has the document's size as attributes and no <entry> child.
svg_file(d) ==
    [attrs |-> ("width" :> d.w @@ "height" :> d.h), entry |-> <<>>,
     body |-> d.body]

\* Variant of the argument loop that stops at the first missing file.
RECURSIVE select_named_stop(_, _)
select_named_stop(fs, args) ==
    IF args = <<>> THEN [files |-> <<>>, printed |-> <<>>]
    ELSE LET a == Head(args)
             path == IF ~isabs(a) THEN join(layouts_dir, a) ELSE a
             rest == select_named_stop(fs, Tail(args))
         IN  IF startswith(a, <<"-", "-">>) THEN rest
             ELSE IF exists(fs, path)
                  THEN [rest EXCEPT !.files = <<path>> \o @]
                  ELSE [files |-> <<>>,
                        printed |-> <<[kind |-> "warning", path |-> path]>>]

\* for arg in sys.argv[1:]: ... of main, on the arguments args: the files
\* appended and the warnings printed, in order
RECURSIVE select_named(_, _)
select_named(fs, args) ==
    IF args = <<>> THEN [files |-> <<>>, printed |-> <<>>]
    ELSE LET a == Head(args)
             path == IF ~isabs(a) THEN join(layouts_dir, a) ELSE a
             rest == select_named(fs, Tail(args))
         IN  IF startswith(a, <<"-", "-">>) THEN rest
             ELSE IF exists(fs, path)
                  THEN [rest EXCEPT !.files = <<path>> \o @]
                  ELSE [rest EXCEPT
                            !.printed = <<[kind |-> "warning",
                                           path |-> path]>> \o @]

\* sorted(os.path.join(layouts_dir, f) for f in os.listdir(layouts_dir)
\*        if f.endswith('.xml'))
discover(fs) ==
    sorted({join(layouts_dir, f) :
                f \in {g \in listdir(fs, layouts_dir) :
                           endswith(g, STR_xml)}})

\* if len(sys.argv) > 1: ... else: ...
SelectFiles ==
    /\ mpc = "start"
    /\ IF Len(argv) > 1
       THEN LET r == select_named(fsys, Tail(argv)) IN
            files' = r.files /\ printed' = r.printed
       ELSE files' = discover(fsys) /\ printed' = <<>>
    /\ mpc' = "loop"
    /\ UNCHANGED <<argv, fsys0, fsys, written>>
    /\ UNCHANGED <<parts, calls, doc, invoked, pc>>
    /\ UnchangedArgs /\ UnchangedFn

\* for path in files: parse_layout(path), variant; generate_svg is called.
\* An exception of parse_layout is not caught: main ends there.
ParseFile ==
    /\ mpc = "loop"
    /\ Len(written) < Len(files)
    /\ LET path == files[Len(written) + 1]
           r == parse_layout(fsys, path)
       IN  IF r.error # ""
           THEN /\ pc' = "raised"
                /\ UnchangedArgs
           ELSE /\ layout_id' = r.layout_id
                /\ layout_name' = r.layout_name
                /\ entries' = r.entries
                /\ variant' = IF contains(basename(path), STR_dash_standard)
                              THEN STR_Standard ELSE STR_Optimized
                /\ pc' = "idle"
    /\ mpc' = "generate"
    /\ UNCHANGED <<argv, fsys0, fsys, files, printed, written>>
    /\ UNCHANGED <<parts, calls, doc, invoked>>
    /\ UnchangedFn

\* with open(out_path, 'w', ...) as f: f.write(svg_content); print(...)
WriteFile ==
    /\ mpc = "generate"
    /\ pc = "done"
    /\ LET path == files[Len(written) + 1]
           out_path == join(output_dir,
                            replace(basename(path), STR_xml, STR_svg))
           svg_content == doc[Len(doc)]
       IN  /\ fsys' = [p \in DOMAIN fsys \cup {out_path} |->
                          IF p = out_path THEN svg_file(svg_content)
                          ELSE fsys[p]]
           /\ written' = Append(written, [path |-> out_path,
                                          content |-> svg_content])
           /\ printed' = Append(printed, [kind |-> "ok", path |-> out_path])
    /\ pc' = "main"
    /\ mpc' = "loop"
    /\ UNCHANGED <<argv, fsys0, files>>
    /\ UNCHANGED <<parts, calls, doc, invoked>>
    /\ UnchangedArgs /\ UnchangedFn

\* print(f'\nDone: generated {len(files)} diagram(s) in {output_dir}')
Finish ==
    /\ mpc = "loop"
    /\ Len(written) = Len(files)
    /\ printed' = Append(printed, [kind |-> "done", n |-> Len(files),
                                   path |-> output_dir])
    /\ mpc' = "exit"
    /\ UNCHANGED <<argv, fsys0, fsys, files, written>>
    /\ UNCHANGED <<parts, calls, doc, invoked, pc>>
    /\ UnchangedArgs /\ UnchangedFn

(***************************************************************************)
(* Command lines and layout directories handed to main                     *)
(***************************************************************************)
MaxArgs == 3       \* most arguments after the script name

STR_en_xml == <<"e", "n", ".", "x", "m", "l">>
STR_de_standard_xml ==
    <<"d", "e", "-", "s", "t", "a", "n", "d", "a", "r", "d", ".", "x", "m",
      "l">>
STR_zz_xml == <<"z", "z", ".", "x", "m", "l">>
STR_opt_all == <<"-", "-", "a", "l", "l">>
STR_notes_txt == <<"n", "o", "t", "e", "s", ".", "t", "x", "t">>
STR_en_svg == <<"e", "n", ".", "s", "v", "g">>
STR_bad_xml == <<"b", "a", "d", ".", "x", "m", "l">>

\* The root element of a layout file: its attributes and its <entry>
\* children in document order.
Element(id, name, entry) ==
    [attrs |-> [k \in ({"id"} \cup IF name = <<>> THEN {} ELSE {"name"}) |->
                    IF k = "id" THEN id ELSE name],
     entry |-> entry]

EntryElement(chord, abc, num, symb) ==
    [k \in {"chord", "abc", "num", "symb"} |->
        CASE k = "chord" -> chord
          [] k = "abc" -> abc
          [] k = "num" -> num
          [] k = "symb" -> symb]

\* The layout files that may exist, by path.  de-standard.xml binds
\* chord 10 twice, written "1_0" and " +10"; en.svg lies in the output
\* directory under the name of a diagram; the second <entry> of bad.xml
\* has a chord that is no numeral.
LayoutFiles ==
    join(layouts_dir, STR_en_xml) :>
        Element(STR_en, STR_English,
                <<EntryElement(<<"3">>, <<"t">>, <<"1">>, <<"#">>)>>)
    @@ join(layouts_dir, STR_de_standard_xml) :>
        Element(<<"d", "e">>, <<>>,
                <<EntryElement(<<"1", "_", "0">>, <<"a">>, <<>>, <<>>),
                  EntryElement(<<" ", "+", "1", "0">>, <<"b">>, <<"2">>,
                               <<>>)>>)
    @@ join(output_dir, STR_en_svg) :>
        Element(<<"s", "v">>, <<>>,
                <<EntryElement(<<"5">>, <<"s">>, <<>>, <<>>)>>)
    @@ join(layouts_dir, STR_bad_xml) :>
        Element(<<"b", "d">>, <<>>,
                <<EntryElement(<<"7">>, <<"g">>, <<>>, <<>>),
                  EntryElement(<<"x">>, <<"h">>, <<>>, <<>>)>>)

\* bad.xml with an <entry> that has no chord attribute.
NoChordFile == Element(<<"b", "d">>, <<>>, <<[k \in {"abc"} |-> <<"q">>]>>)

\* A file of the layouts directory that is not a layout.
OtherFiles == join(layouts_dir, STR_notes_txt) :> <<>>

\* The files of S with the other files.
Files(S) ==
    [p \in S \cup DOMAIN OtherFiles |->
        IF p \in S THEN LayoutFiles[p] ELSE OtherFiles[p]]

\* Every layout file; en.xml and the bad.xml without a chord; the two
\* others.
FileSystems ==
    {Files(DOMAIN LayoutFiles),
     [Files({join(layouts_dir, STR_en_xml), join(layouts_dir, STR_bad_xml)})
         EXCEPT ![join(layouts_dir, STR_bad_xml)] = NoChordFile],
     Files({join(layouts_dir, STR_de_standard_xml),
            join(output_dir, STR_en_svg)})}

\* Arguments: the name of a layout, of a Standard layout, of a file that
\* never exists, an option, the absolute path of a layout kept where the
\* diagram of en.xml (and its own) is written, and the name of the
\* layout that cannot be parsed.
ArgValues ==
    {STR_en_xml, STR_de_standard_xml, STR_zz_xml, STR_opt_all,
     join(output_dir, STR_en_svg), STR_bad_xml}

\* The lists of up to n different arguments.
RECURSIVE ArgLists(_)
ArgLists(n) ==
    IF n = 0 THEN {<<>>}
    ELSE LET shorter == ArgLists(n - 1) IN
         shorter \cup UNION {{Append(s, a) : a \in ArgValues \ Range(s)} :
                               s \in shorter}

InitMain ==
    /\ NoArgs
    /\ pc = "main"
    /\ fn = "" /\ arg = <<>> /\ res = <<>>
    /\ argv \in {<<STR_file>> \o as : as \in ArgLists(MaxArgs)}
    /\ fsys \in FileSystems
    /\ fsys0 = fsys
    /\ files = <<>>
    /\ printed = <<>>
    /\ written = <<>>
    /\ mpc = "start"

NextMain ==
    \/ SelectFiles
    \/ ParseFile
    \/ WriteFile
    \/ Finish
    \/ GenerateSvg

SpecMain == InitMain /\ [][NextMain]_vars

(***************************************************************************)
(* Claims about the diagram (checked under Spec)                           *)
(***************************************************************************)
\* Position of key k in the fixed order A,B,C,D,E,F.
KeyPos(k) == CHOOSE i \in DOMAIN KEYS : KEYS[i] = k

\* The slots a renderer call binds: the center cell one per single key,
\* an inner cell its base pair and the 3-key extensions base | k for the
\* opposite-hand keys k, every other cell its one chord.
SlotsOfCall(i) ==
    LET c == calls[i] IN
    IF c.renderer = "center"
    THEN {[call |-> i, kind |-> "single", chord |-> KEYS[k]] : k \in DOMAIN KEYS}
    ELSE IF c.renderer = "inner"
    THEN {[call |-> i, kind |-> "base", chord |-> c.chord]}
         \cup {[call |-> i, kind |-> "ext", chord |-> BitOr(c.chord, k)] :
                   k \in ExtSide(c.chord)}
    ELSE {[call |-> i, kind |-> c.renderer, chord |-> c.chord]}

BoundSlots == UNION {SlotsOfCall(i) : i \in DOMAIN calls}

HasSlot(c) == \E s \in BoundSlots : s.chord = c

\* A 4-key chord made of all three keys of one hand and one key of the
\* other: ABCD, ABCE, ABCF, ADEF, BDEF, CDEF.
WholeHandPlusOne(c) ==
    LET ks == Range(bits(c)) IN
    Cardinality(ks) = 4 /\ (LEFT \subseteq ks \/ RIGHT \subseteq ks)

\* C1 (as stated): once the diagram is built, every chord value in 1..63
\* has a slot bound to it.
C1_EveryChordHasSlot ==
    pc = "done" => \A c \in Chords : HasSlot(c)

\* C1 (amended): once the diagram is built, a chord value in 1..63 has a
\* slot bound to it exactly when it is not one of the six 4-key chords
\* made of a whole hand plus one key of the other hand.
C1_EveryChordButSixHasSlot ==
    pc = "done" => \A c \in Chords : HasSlot(c) <=> ~WholeHandPlusOne(c)

C1_Witness ==
    /\ pc = "done"
    /\ \E s \in BoundSlots : s.kind = "ext" /\ s.chord = Union(<<A, B, D>>)
    /\ ~HasSlot(Union(<<A, B, C, D>>))

\* C2: once the diagram is built, no chord value is bound to more than one
\* slot.
C2_NoChordInTwoSlots ==
    pc = "done" => \A s, t \in BoundSlots : s # t => s.chord # t.chord

C2_Witness == pc = "done" /\ Cardinality(BoundSlots) = 57

IsRect(p) == p.kind = "rect"
IsText(p) == p.kind = "text"

\* C3: every rectangle lies within the canvas and every text anchor lies
\* within the canvas.
C3_InCanvas ==
    \A i \in DOMAIN parts :
        LET p == parts[i] IN
        /\ IsRect(p) => /\ p.x >= 0 /\ p.y >= 0
                        /\ p.x + p.w <= total_w /\ p.y + p.h <= total_h
        /\ IsText(p) => /\ 0 <= p.x /\ p.x <= total_w
                        /\ 0 <= p.y /\ p.y <= total_h

CallPrims(i) == SubSeq(parts, calls[i].from, calls[i].to)
Rects(ps) == SelectSeq(ps, IsRect)
Texts(ps) == SelectSeq(ps, IsText)

\* The six key rectangles of a cell, in KEYS order: the first six
\* rectangles of a center or inner cell, the six after the frame of any
\* other cell.
KeyRects(i) ==
    LET rs == Rects(CallPrims(i)) IN
    IF calls[i].renderer \in {"center", "inner"}
    THEN SubSeq(rs, 1, 6) ELSE SubSeq(rs, 2, 7)

MinOf(S) == CHOOSE v \in S : \A w \in S : v <= w
MaxOf(S) == CHOOSE v \in S : \A w \in S : v >= w

Box(r) == [x1 |-> r.x, y1 |-> r.y, x2 |-> r.x + r.w, y2 |-> r.y + r.h]

BoundingBox(rs) ==
    [x1 |-> MinOf({rs[k].x : k \in DOMAIN rs}),
     y1 |-> MinOf({rs[k].y : k \in DOMAIN rs}),
     x2 |-> MaxOf({rs[k].x + rs[k].w : k \in DOMAIN rs}),
     y2 |-> MaxOf({rs[k].y + rs[k].h : k \in DOMAIN rs})]

\* A cell's extent: the bounding box of the key grid of a center or inner
\* cell, the frame rectangle of any other cell.
Extent(i) ==
    IF calls[i].renderer \in {"center", "inner"}
    THEN BoundingBox(KeyRects(i))
    ELSE Box(parts[calls[i].from])

DisjointInteriors(a, b) ==
    \/ a.x2 <= b.x1 \/ b.x2 <= a.x1
    \/ a.y2 <= b.y1 \/ b.y2 <= a.y1

\* The main box outline is the second primitive, after the title.
MainBox == Box(parts[2])

\* C4: once the diagram is built, any two distinct cells have disjoint
\* interiors, and
\* every cell other than the center and inner cells lies outside the main
\* box outline.
C4_CellsDisjoint ==
    pc = "done" => \A i, j \in DOMAIN calls :
        /\ i # j => DisjointInteriors(Extent(i), Extent(j))
        /\ calls[i].renderer \notin {"center", "inner"}
              => DisjointInteriors(Extent(i), MainBox)

C4_Witness ==
    /\ pc = "done" /\ Len(calls) = 34
    /\ \E i \in DOMAIN calls : calls[i].renderer = "control"

\* Twice the x coordinate of the vertical midline of a cell's key grid.
Mid2(i) == LET ks == KeyRects(i) IN ks[1].x + ks[4].x + ks[4].w

\* The texts of cell i that belong to key number k (in KEYS order): those
\* anchored within the key's row band on the key's side of the midline.
TextsAtKey(i, k) ==
    LET r == KeyRects(i)[k] IN
    SelectSeq(Texts(CallPrims(i)),
              LAMBDA t : /\ r.y <= t.y /\ t.y <= r.y + r.h
                         /\ (2 * t.x < Mid2(i)) <=> (2 * r.x < Mid2(i)))

\* The texts of cell i anchored on the side of the midline that holds the
\* keys ks.
TextsOnSideOf(i, ks) ==
    SelectSeq(Texts(CallPrims(i)),
              LAMBDA t : (2 * t.x < Mid2(i)) <=> (ks \subseteq LEFT))

LabelOf(chord) ==
    LET tbl == modes \o ctrl_chords IN
    tbl[CHOOSE k \in DOMAIN tbl : tbl[k][1] = chord][2]

\* The cell of slot s is drawn, and no text of it comes from a layout
\* field of the slot's chord.
DrawnBlank(s) ==
    LET i == s.call
        ps == CallPrims(i)
    IN  CASE s.kind = "single" ->
                /\ Len(Rects(ps)) = 6
                /\ TextsAtKey(i, KeyPos(s.chord)) = <<>>
          [] s.kind = "base" ->
                /\ Len(Rects(ps)) = 6
                /\ TextsOnSideOf(i, Range(bits(s.chord))) = <<>>
          [] s.kind = "ext" ->
                LET k == KeyPos(s.chord - calls[i].chord) IN
                /\ Len(Rects(ps)) >= 6
                /\ KeyRects(i)[k].fill = "#f0f0f0"
                /\ TextsAtKey(i, k) = <<>>
          [] s.kind \in {"outer", "direction"} ->
                /\ Len(Rects(ps)) = 7
                /\ Texts(ps) = <<>>
          [] s.kind \in {"mode", "control"} ->
                /\ Len(Rects(ps)) = 7
                /\ Len(Texts(ps)) = 1
                /\ Texts(ps)[1].txt = LabelOf(s.chord)

\* C9: once the diagram is built, the cell of every slot whose chord has
\* no entry in the table is drawn with its frame and keys and shows no
\* letter, digit or symbol text for that chord.
C9_MissingEntryDrawnBlank ==
    pc = "done" =>
        \A s \in BoundSlots : s.chord \notin DOMAIN entries => DrawnBlank(s)

C9_Witness ==
    /\ pc = "done"
    /\ Union(<<A, C, E>>) \notin DOMAIN entries
    /\ BitOr(A, C) \in DOMAIN entries
    /\ Union(<<A, C, D>>) \in DOMAIN entries

PressedKeys(i) ==
    {KEYS[k] : k \in {q \in DOMAIN KEYS : KeyRects(i)[q].fill = "#222"}}

OuterCalls == {i \in DOMAIN calls : calls[i].renderer = "outer"}

\* C11 (as stated): each of the twelve outer cells shows a chord of
\* exactly four keys with a key of each hand.
C11_OuterFourKeys ==
    pc = "done" =>
        /\ Cardinality(OuterCalls) = 12
        /\ \A i \in OuterCalls :
              /\ PressedKeys(i) = Range(bits(calls[i].chord))
              /\ Cardinality(PressedKeys(i)) = 4
              /\ PressedKeys(i) \cap LEFT # {}
              /\ PressedKeys(i) \cap RIGHT # {}

\* C11 (amended): each of the twelve outer cells shows a chord with as
\* many left-hand keys as right-hand keys, one of each or two of each;
\* six of the twelve are 2-key chords and six are 4-key chords.
C11_OuterBalanced ==
    pc = "done" =>
        /\ Cardinality(OuterCalls) = 12
        /\ \A i \in OuterCalls :
              /\ PressedKeys(i) = Range(bits(calls[i].chord))
              /\ Cardinality(PressedKeys(i) \cap LEFT) \in {1, 2}
              /\ Cardinality(PressedKeys(i) \cap LEFT)
                    = Cardinality(PressedKeys(i) \cap RIGHT)
        /\ Cardinality({i \in OuterCalls : Cardinality(PressedKeys(i)) = 2}) = 6
        /\ Cardinality({i \in OuterCalls : Cardinality(PressedKeys(i)) = 4}) = 6

C11_Witness ==
    /\ pc = "done"
    /\ \E i \in OuterCalls : PressedKeys(i) = {A, E}
    /\ \E i \in OuterCalls : PressedKeys(i) = {B, C, D, F}

LabelCalls == {i \in DOMAIN calls : calls[i].renderer \in {"mode", "control"}}

\* The texts of a framed cell that are not secondary annotations: those
\* not drawn in the digit color or the symbol color.
TopTexts(i) ==
    SelectSeq(Texts(CallPrims(i)),
              LAMBDA t : t.fill \notin {"#999", "#2266cc"})

STR_Toggle == <<"A", "B", "C", "U+21C4", "1", "2", "3">>

\* C12: once the diagram is built, the all-six-keys chord is drawn by the
\* mode-switch renderer with the label ABC<->123, and every mode-switch
\* and control cell has exactly one top text, which is the fixed label of
\* its chord 18 units below the top of the frame, whatever the entry of
\* the chord holds.
C12_FixedLabel ==
    pc = "done" =>
        /\ \E i \in LabelCalls :
              /\ calls[i].renderer = "mode"
              /\ calls[i].chord = 63
              /\ TopTexts(i)[1].txt = STR_Toggle
        /\ \A i \in DOMAIN calls : calls[i].chord = 63 => i \in LabelCalls
        /\ \A i \in LabelCalls :
              LET frame == parts[calls[i].from] IN
              /\ Len(TopTexts(i)) = 1
              /\ TopTexts(i)[1].txt = LabelOf(calls[i].chord)
              /\ TopTexts(i)[1].y = frame.y + 18 * U
              /\ 2 * TopTexts(i)[1].x = 2 * frame.x + frame.w

C12_Witness ==
    /\ pc = "done"
    /\ 63 \in DOMAIN entries
    /\ entries[63].abc = STR_backspace
    /\ entries[63].num = <<"1">>

InnerCalls == {i \in DOMAIN calls : calls[i].renderer = "inner"}

\* The hand that does not hold the keys of the same-hand pair P.
OppositeHand(P) == IF Range(bits(P)) \subseteq LEFT THEN RIGHT ELSE LEFT

\* The texts of cell i anchored at the center of key number k: the
\* character drawn on the key.
CharsOnKey(i, k) ==
    LET r == KeyRects(i)[k] IN
    SelectSeq(Texts(CallPrims(i)),
              LAMBDA t : 2 * t.x = 2 * r.x + r.w /\ 2 * t.y = 2 * r.y + r.h)

\* C16: in the inner cell of base pair P, exactly the two keys of P are
\* drawn pressed; an opposite-hand key k is drawn undimmed with the
\* resolved letter of P | k on it exactly when the table has an entry for
\* P | k; every other key is drawn dimmed with no character.
C16_InnerKeys ==
    pc = "done" =>
        \A i \in InnerCalls :
            LET P == calls[i].chord IN
            /\ PressedKeys(i) = Range(bits(P))
            /\ Cardinality(PressedKeys(i)) = 2
            /\ \A k \in DOMAIN KEYS :
                  LET key == KEYS[k]
                      ext == BitOr(P, key)
                      r == KeyRects(i)[k]
                  IN  key \notin PressedKeys(i) =>
                        IF key \in OppositeHand(P) /\ ext \in DOMAIN entries
                        THEN /\ r.fill = "white"
                             /\ IF disp(entries[ext].abc) = <<>>
                                THEN CharsOnKey(i, k) = <<>>
                                ELSE /\ Len(CharsOnKey(i, k)) = 1
                                     /\ CharsOnKey(i, k)[1].txt
                                           = disp(entries[ext].abc)
                        ELSE /\ r.fill = "#f0f0f0"
                             /\ CharsOnKey(i, k) = <<>>

C16_Witness ==
    /\ pc = "done"
    /\ Union(<<A, B, D>>) \in DOMAIN entries
    /\ entries[Union(<<A, B, D>>)].abc = STR_esc
    /\ Union(<<A, B, E>>) \notin DOMAIN entries

\* The badge of inner cell i: the one rectangle after the six keys.
HasBadge(i) == Len(Rects(CallPrims(i))) = 7
Badge(i) == Rects(CallPrims(i))[7]

\* Twice the center coordinates of a rectangle.
CenterX2(r) == 2 * r.x + r.w
CenterY2(r) == 2 * r.y + r.h

\* The key rectangles of the two pressed keys of inner cell i.
PressedRects(i) ==
    {KeyRects(i)[k] : k \in {q \in DOMAIN KEYS : KEYS[q] \in PressedKeys(i)}}

\* C17: an inner cell whose base chord has a non-empty resolved letter
\* has a badge; the badge is centered vertically midway between the
\* centers of the two pressed keys; horizontally it is centered on the
\* pressed column when the pressed rows differ by 1 and 14 units further
\* out (left for a left-hand pair, right for a right-hand pair) when they
\* differ by more, which is so for A|C and D|F only.
C17_BadgePlacement ==
    pc = "done" =>
        \A i \in InnerCalls :
            LET P == calls[i].chord
                has_letter == P \in DOMAIN entries /\ disp(entries[P].abc) # <<>>
            IN  /\ HasBadge(i) <=> has_letter
                /\ has_letter =>
                     LET b == Badge(i)
                         ps == PressedRects(i)
                         colx2 == CHOOSE v \in {CenterX2(r) : r \in ps} : TRUE
                         rows == {KROW[k] : k \in Range(bits(P))}
                         apart == MaxOf(rows) - MinOf(rows) > 1
                         out == IF Range(bits(P)) \subseteq LEFT
                                THEN 0 - 14 * U ELSE 14 * U
                     IN  /\ Cardinality({CenterX2(r) : r \in ps}) = 1
                         /\ 2 * CenterY2(b)
                               = MinOf({CenterY2(r) : r \in ps})
                                 + MaxOf({CenterY2(r) : r \in ps})
                         /\ CenterX2(b)
                               = colx2 + (IF apart THEN 2 * out ELSE 0)
                         /\ apart <=> P \in {BitOr(A, C), BitOr(D, F)}
                         /\ \E t \in Range(Texts(CallPrims(i))) :
                               /\ t.txt = disp(entries[P].abc)
                               /\ 2 * t.x = CenterX2(b)
                               /\ 2 * t.y = CenterY2(b)

C17_Witness ==
    /\ pc = "done"
    /\ BitOr(A, C) \in DOMAIN entries
    /\ entries[BitOr(A, C)].abc = STR_backspace
    /\ \E i \in InnerCalls : calls[i].chord = BitOr(A, C) /\ HasBadge(i)

\* The texts of the region of slot s: of its key for a single key or an
\* extension, of the pressed side for a base pair, of the whole cell
\* otherwise.
SlotTexts(s) ==
    LET i == s.call IN
    CASE s.kind = "single" -> TextsAtKey(i, KeyPos(s.chord))
      [] s.kind = "ext" -> TextsAtKey(i, KeyPos(s.chord - calls[i].chord))
      [] s.kind = "base" -> TextsOnSideOf(i, Range(bits(s.chord)))
      [] OTHER -> Texts(CallPrims(i))

\* The secondary annotations of slot s drawn in the given color.
Annotations(s, color) == SelectSeq(SlotTexts(s), LAMBDA t : t.fill = color)

\* A value is annotated in a color: drawn once when its resolved form is
\* not empty, not drawn when it is empty.
Annotated(s, raw, color) ==
    IF disp(raw) = <<>>
    THEN Annotations(s, color) = <<>>
    ELSE /\ Len(Annotations(s, color)) = 1
         /\ Annotations(s, color)[1].txt = disp(raw)

\* C18: once the diagram is built, for every slot whose chord has an
\* entry, the digit-mode value and the symbol-mode value are each drawn
\* as a secondary annotation of the slot exactly when their resolved form
\* is not empty, whatever the letter-mode value is.
C18_AnnotationsDrawn ==
    pc = "done" =>
        \A s \in BoundSlots :
            s.chord \in DOMAIN entries =>
                /\ Annotated(s, entries[s.chord].num, "#999")
                /\ Annotated(s, entries[s.chord].symb, "#2266cc")

(***************************************************************************)
(* Claims about the batch driver (checked under SpecMain)                  *)
(***************************************************************************)
\* The input identifiers of the command line: the arguments that are not
\* options.
Identifiers ==
    SelectSeq(Tail(argv), LAMBDA a : ~startswith(a, <<"-", "-">>))

\* The file an identifier names.
Named(a) == IF isabs(a) THEN a ELSE join(layouts_dir, a)

NamedFiles == [i \in DOMAIN Identifiers |-> Named(Identifiers[i])]

Warned ==
    LET w == SelectSeq(printed, LAMBDA l : l.kind = "warning") IN
    [i \in DOMAIN w |-> w[i].path]

\* The title generate_svg draws for the layout file p as it was when main
\* started.
TitleOf(p) ==
    LET l == parse_layout(fsys0, p)
        v == IF contains(basename(p), STR_dash_standard)
             THEN STR_Standard ELSE STR_Optimized
    IN  (IF l.layout_name \notin {None, <<>>}
         THEN l.layout_name ELSE l.layout_id)
        \o <<" ", "(">> \o v \o <<")">>

\* The document w was generated from the layout file p and written under
\* the output name derived from p's name.
WrittenFor(w, p) ==
    /\ w.path = join(output_dir, replace(basename(p), STR_xml, STR_svg))
    /\ w.content.body # <<>>
    /\ w.content.body[1].txt = TitleOf(p)
    /\ \E i \in DOMAIN doc : doc[i] = w.content

\* The named files that existed when main started, and those that did not.
Existing == SelectSeq(NamedFiles, LAMBDA p : p \in DOMAIN fsys0)

Missing == SelectSeq(NamedFiles, LAMBDA p : p \notin DOMAIN fsys0)

\* The file main is working on cannot be made a diagram: an <entry> has
\* no chord numeral, or the root has neither a name nor an id for the
\* title.
Unreadable ==
    /\ Len(written) < Len(files)
    /\ LET l == parse_layout(fsys, files[Len(written) + 1]) IN
       \/ l.error # ""
       \/ l.layout_name \in {None, <<>>} /\ l.layout_id = None

\* main has run to its end or was ended by an exception.
Ended == mpc = "exit" \/ (mpc # "none" /\ pc = "raised")

\* C13 (as stated): when main has run on a command line naming files of
\* which some do not exist, it has warned once for each missing file, in
\* order, and written one output for each existing named file, in order,
\* and no other.
C13_ExistingAllWritten ==
    (Ended /\ Missing # <<>>) =>
        /\ Warned = Missing
        /\ Len(written) = Len(Existing)
        /\ \A i \in DOMAIN written : WrittenFor(written[i], Existing[i])

\* C13 (amended): on a command line with arguments main warns once for
\* each named file that does not exist, in order, and goes on to the
\* named files that exist, in order; the outputs written are those of
\* the first existing files, in order, each from its own layout, and at
\* the end of a run that was not ended by an exception there is one for
\* every existing file.  An exception ends the run only at an existing
\* file that cannot be made a diagram, never at a missing one.
C13_MissingSkipped ==
    /\ (mpc \notin {"none", "start"} /\ Len(argv) > 1) =>
           /\ Warned = Missing
           /\ files = Existing
           /\ Len(written) <= Len(Existing)
           /\ \A i \in DOMAIN written : WrittenFor(written[i], Existing[i])
    /\ (mpc = "exit" /\ Len(argv) > 1) =>
           /\ Len(written) = Len(Existing)
           /\ printed[Len(printed)] =
                  [kind |-> "done", n |-> Len(Existing),
                   path |-> output_dir]
    /\ (mpc # "none" /\ pc = "raised") => Unreadable

\* A missing file named before two existing ones, both written.
C13_Witness ==
    /\ mpc = "exit"
    /\ Len(Identifiers) = 3
    /\ NamedFiles[1] \notin DOMAIN fsys0
    /\ NamedFiles[2] \in DOMAIN fsys0
    /\ NamedFiles[3] \in DOMAIN fsys0
    /\ NamedFiles[2] # NamedFiles[3]
    /\ Warned = <<NamedFiles[1]>>
    /\ Len(written) = 2
    /\ written[1].content # written[2].content

\* C14 (as stated): when main has run on a command line that names no
\* layout file, it wrote one diagram for every .xml file of the layouts
\* directory.
C14_NoneNamedDiscoversAll ==
    (mpc = "exit" /\ Identifiers = <<>>) =>
        LET xmls == {p \in DOMAIN fsys0 :
                        dirname(p) = layouts_dir /\ endswith(p, STR_xml)}
        IN  /\ Len(written) = Cardinality(xmls)
            /\ \A p \in xmls :
                   \E i \in DOMAIN written : WrittenFor(written[i], p)

(***************************************************************************)
(* Evaluation of the pure functions on bounded inputs                      *)
(***************************************************************************)
MaxLen == 8        \* longest glyph handed to font_size_for
MaxBase == 26      \* largest base size handed to font_size_for
MaxStrLen == 3     \* longest enumerated raw field value

Alphabet == {"e", "s", "c", " "}

RECURSIVE Strs(_)
Strs(n) ==
    IF n = 0 THEN {<<>>}
    ELSE LET shorter == Strs(n - 1) IN
         shorter \cup {Append(s, c) : s \in shorter, c \in Alphabet}

ActionNames == {ACTION_MAP[i].name : i \in DOMAIN ACTION_MAP}

\* Raw field values: every short string over Alphabet, every action name,
\* and every action name followed by a blank or preceded by one.
RawValues ==
    Strs(MaxStrLen) \cup ActionNames
    \cup {Append(n, " ") : n \in ActionNames}
    \cup {<<" ">> \o n : n \in ActionNames}

InitFn ==
    /\ NoArgs
    /\ NoMain
    /\ pc = "call"
    /\ res = <<>>
    /\ \/ fn = "bits" /\ arg \in Chords
       \/ fn = "chord_label" /\ arg \in Chords
       \/ /\ fn = "font_size_for"
          /\ arg \in [char : {Rep("x", n) : n \in 0..MaxLen},
                      base_size : 1..MaxBase]
       \/ fn = "disp" /\ arg \in RawValues

Call_bits ==
    /\ pc = "call" /\ fn = "bits"
    /\ res' = bits(arg)
    /\ pc' = "ret"
    /\ UNCHANGED <<layout_id, layout_name, variant, entries, parts, calls,
                   doc, invoked, fn, arg>>
    /\ UnchangedMain

Call_chord_label ==
    /\ pc = "call" /\ fn = "chord_label"
    /\ res' = chord_label(arg)
    /\ pc' = "ret"
    /\ UNCHANGED <<layout_id, layout_name, variant, entries, parts, calls,
                   doc, invoked, fn, arg>>
    /\ UnchangedMain

Call_font_size_for ==
    /\ pc = "call" /\ fn = "font_size_for"
    /\ res' = font_size_for(arg.char, arg.base_size)
    /\ pc' = "ret"
    /\ UNCHANGED <<layout_id, layout_name, variant, entries, parts, calls,
                   doc, invoked, fn, arg>>
    /\ UnchangedMain

Call_disp ==
    /\ pc = "call" /\ fn = "disp"
    /\ res' = disp(arg)
    /\ pc' = "ret"
    /\ UNCHANGED <<layout_id, layout_name, variant, entries, parts, calls,
                   doc, invoked, fn, arg>>
    /\ UnchangedMain

NextFn == Call_bits \/ Call_chord_label \/ Call_font_size_for \/ Call_disp

SpecFn == InitFn /\ [][NextFn]_vars

(***************************************************************************)
(* Claims about the pure functions (checked under SpecFn)                  *)
(***************************************************************************)
Returned(f) == pc = "ret" /\ fn = f

\* The size font_size_for returned is no larger than the size of every
\* shorter glyph with the same base size.
NoShorterGlyphSmaller ==
    \A m \in 0..Len(arg.char) :
        res <= font_size_for(Rep("x", m), arg.base_size)

\* C5 (as stated): font_size_for is monotonically non-increasing in glyph
\* length for every positive integer base size.
C5_MonotoneAnyBase ==
    Returned("font_size_for") => NoShorterGlyphSmaller

\* C5 (amended): font_size_for is monotonically non-increasing in glyph
\* length for every base size of at least 9, the largest floor.
C5_MonotoneFromNine ==
    (Returned("font_size_for") /\ arg.base_size >= 9) => NoShorterGlyphSmaller

C5_Witness ==
    /\ Returned("font_size_for")
    /\ arg.base_size = 13 /\ Len(arg.char) = 5 /\ res = 7

IsStrictlyIncreasing(idx) ==
    \A i, j \in DOMAIN idx : i < j => idx[i] < idx[j]

\* C6: bits(m) lists keys in the fixed order A,B,C,D,E,F, each at most
\* once, and the bitwise OR of the listed keys is m.
C6_BitsRoundTrip ==
    Returned("bits") =>
        /\ \A i \in DOMAIN res : res[i] \in {A, B, C, D, E, F}
        /\ IsStrictlyIncreasing([i \in DOMAIN res |-> KeyPos(res[i])])
        /\ Union(res) = arg

C6_Witness == Returned("bits") /\ arg = 37 /\ res = <<A, C, F>>

\* C7: chord_label is injective over 1..63: no other chord has the label
\* that was returned.
C7_LabelInjective ==
    Returned("chord_label") =>
        \A m \in Chords : m # arg => chord_label(m) # res

C7_Witness == Returned("chord_label") /\ arg = 56 /\ res = <<"D", "E", "F">>

\* res is val with its trailing whitespace removed.
IsRStripOf(r, val) ==
    /\ Len(r) <= Len(val)
    /\ r = SubSeq(val, 1, Len(r))
    /\ \A i \in (Len(r) + 1)..Len(val) : val[i] \in WHITESPACE
    /\ r # <<>> => r[Len(r)] \notin WHITESPACE

IsGlyphOf(r, val) ==
    \E i \in DOMAIN ACTION_MAP :
        ACTION_MAP[i].name = val /\ ACTION_MAP[i].glyph = r

STR_Home == <<"H", "o", "m", "e">>
STR_End == <<"E", "n", "d">>

\* C8 (as stated): disp maps the empty string to the empty string, an
\* action name to its glyph and never to the name itself, and any other
\* value to the value without its trailing whitespace.
C8_DispAsStated ==
    Returned("disp") =>
        /\ arg = <<>> => res = <<>>
        /\ arg \in ActionNames => IsGlyphOf(res, arg) /\ res # arg
        /\ (arg # <<>> /\ arg \notin ActionNames) => IsRStripOf(res, arg)

\* C8 (amended): as stated, except that the glyph of the action names
\* Home and End is the name itself.
C8_Disp ==
    Returned("disp") =>
        /\ arg = <<>> => res = <<>>
        /\ arg \in ActionNames =>
              /\ IsGlyphOf(res, arg)
              /\ (res = arg) <=> (arg \in {STR_Home, STR_End})
        /\ (arg # <<>> /\ arg \notin ActionNames) => IsRStripOf(res, arg)

C8_Witness ==
    /\ Returned("disp")
    /\ arg = <<"b", "a", "c", "k", "s", "p", "a", "c", "e">>
    /\ res = <<"U+232B">>

(***************************************************************************)
(* Bigram preprocessing (scripts/generate_bigrams.py).  A word is a        *)
(* string; a bigram is <<w1, w2, count>>.                                  *)
(***************************************************************************)
\* s[:n] of Python: the first n elements, for a negative n all but the
\* last -n
Slice(s, n) ==
    IF n >= 0 THEN SubSeq(s, 1, IF n < Len(s) THEN n ELSE Len(s))
    ELSE SubSeq(s, 1, Len(s) + n)

\* for w1, w2, count in bigrams: if ...: grouped[w1].append((w2, count))
\* on the insertion-ordered dict grouped, kept as the sequence of its items
RECURSIVE group(_, _)
group(bigrams, wordset) ==
    IF bigrams = <<>> THEN <<>>
    ELSE LET b == bigrams[Len(bigrams)]
             g == group(SubSeq(bigrams, 1, Len(bigrams) - 1), wordset)
             f == [w |-> b[2], count |-> b[3]]
         IN  IF b[1] \in wordset /\ b[2] \in wordset /\ b[1] # b[2]
             THEN IF \E i \in DOMAIN g : g[i].key = b[1]
                  THEN [i \in DOMAIN g |->
                           IF g[i].key = b[1]
                           THEN [g[i] EXCEPT !.followers = Append(@, f)]
                           ELSE g[i]]
                  ELSE Append(g, [key |-> b[1], followers |-> <<f>>])
             ELSE g

\* Variant of the stable sort that puts the smallest key first.
RECURSIVE argsort_ascending(_)
argsort_ascending(keys) ==
    IF keys = <<>> THEN <<>>
    ELSE LET n == Len(keys)
             t == argsort_ascending(SubSeq(keys, 1, n - 1))
             m == Cardinality({i \in DOMAIN t : keys[t[i]] <= keys[n]})
         IN  SubSeq(t, 1, m) \o <<n>> \o SubSeq(t, m + 1, Len(t))

\* The order list.sort(key=..., reverse=True) and sorted(..., key=...,
\* reverse=True) give to elements of the keys keys: the positions, largest
\* key first, those of equal key in their original order
RECURSIVE argsort_reverse(_)
argsort_reverse(keys) ==
    IF keys = <<>> THEN <<>>
    ELSE LET n == Len(keys)
             t == argsort_reverse(SubSeq(keys, 1, n - 1))
             m == Cardinality({i \in DOMAIN t : keys[t[i]] >= keys[n]})
         IN  SubSeq(t, 1, m) \o <<n>> \o SubSeq(t, m + 1, Len(t))

\* s, whose elements have the keys keys, sorted by key, reversed
sort_reverse(s, keys) ==
    LET order == argsort_reverse(keys) IN
    [i \in DOMAIN s |-> s[order[i]]]

\* sum(c for _, c in followers)
RECURSIVE sum_counts(_)
sum_counts(followers) ==
    IF followers = <<>> THEN 0
    ELSE Head(followers).count + sum_counts(Tail(followers))

filter_and_group(bigrams, wordset, max_context, max_followers) ==
    LET grouped == group(bigrams, wordset)
        by_count(fs) == sort_reverse(fs, [j \in DOMAIN fs |-> fs[j].count])
        top == [i \in DOMAIN grouped |->
                   [grouped[i] EXCEPT !.followers =
                        Slice(by_count(@), max_followers)]]
        ranked == sort_reverse(top, [i \in DOMAIN top |->
                                        sum_counts(top[i].followers)])
    IN  Slice(ranked, max_context)

STR_bigrams_file ==
    <<"/", "r", "/", "s", "c", "r", "i", "p", "t", "s", "/", "g", "e", "n",
      "e", "r", "a", "t", "e", "_", "b", "i", "g", "r", "a", "m", "s", ".",
      "p", "y">>
STR_bigrams == <<"b", "i", "g", "r", "a", "m", "s">>
STR_wordlists == <<"w", "o", "r", "d", "l", "i", "s", "t", "s">>
STR_gz == <<".", "g", "z">>
STR_txt == <<".", "t", "x", "t">>
STR_cache == <<".", "c", "a", "c", "h", "e">>
STR_count_2w_txt ==
    <<"c", "o", "u", "n", "t", "_", "2", "w", ".", "t", "x", "t">>
TAB == "U+0009"
NEWLINE == "U+000A"

\* SCRIPT_DIR, PROJECT_ROOT, WORDLIST_DIR, OUTPUT_DIR of generate_bigrams.py
SCRIPT_DIR == dirname(STR_bigrams_file)
PROJECT_ROOT == dirname(SCRIPT_DIR)
WORDLIST_DIR ==
    join(join(join(join(join(PROJECT_ROOT, STR_app), STR_src), STR_main),
              STR_assets), STR_wordlists)
OUTPUT_DIR ==
    join(join(join(join(join(PROJECT_ROOT, STR_app), STR_src), STR_main),
              STR_assets), STR_bigrams)

\* bigram_path of main when --input is not given
cache_path == join(join(SCRIPT_DIR, STR_cache), STR_count_2w_txt)

\* A text file is the sequence of its lines, each with its line end.

\* s.split(): the maximal runs of characters that are not whitespace
split(s) ==
    LET word(i) == s[i] \notin WHITESPACE
        starts == {i \in DOMAIN s : word(i) /\ (i = 1 \/ ~word(i - 1))}
        stop(i) == CHOOSE j \in i..Len(s) :
                       /\ \A k \in i..j : word(k)
                       /\ j = Len(s) \/ ~word(j + 1)
        nth(k) == CHOOSE i \in starts :
                      Cardinality({j \in starts : j <= i}) = k
    IN  [k \in 1..Cardinality(starts) |-> SubSeq(s, nth(k), stop(nth(k)))]

\* s.lower(), for the letters A to Z
lower(s) ==
    LET up ==
            "A" :> "a" @@ "B" :> "b" @@ "C" :> "c" @@ "D" :> "d" @@
            "E" :> "e" @@ "F" :> "f" @@ "G" :> "g" @@ "H" :> "h" @@
            "I" :> "i" @@ "J" :> "j" @@ "K" :> "k" @@ "L" :> "l" @@
            "M" :> "m" @@ "N" :> "n" @@ "O" :> "o" @@ "P" :> "p" @@
            "Q" :> "q" @@ "R" :> "r" @@ "S" :> "s" @@ "T" :> "t" @@
            "U" :> "u" @@ "V" :> "v" @@ "W" :> "w" @@ "X" :> "x" @@
            "Y" :> "y" @@ "Z" :> "z"
    IN  [i \in DOMAIN s |-> IF s[i] \in DOMAIN up THEN up[s[i]] ELSE s[i]]

\* load_wordlist(lang) when the word list exists: the first field of each
\* line, in lower case
load_wordlist(fs, lang) ==
    LET lines == fs[join(WORDLIST_DIR, lang \o STR_txt)]
        first(l) == LET sp == {i \in DOMAIN l : l[i] = " "} IN
                    IF sp = {} THEN l
                    ELSE SubSeq(l, 1, (CHOOSE i \in sp :
                                           \A j \in sp : i <= j) - 1)
    IN  {lower(first(strip(lines[i]))) : i \in DOMAIN lines}

\* The bigrams parse_bigrams appends for one line: none or one
parse_bigram_line(line) ==
    LET l == strip(line)
        tabs == {i \in DOMAIN l : l[i] = TAB}
        t == CHOOSE i \in tabs : \A j \in tabs : i <= j
        words == split(SubSeq(l, 1, t - 1))
        count == to_int(strip(SubSeq(l, t + 1, Len(l))))
        cols == split(l)
    IN  IF l = <<>> THEN <<>>
        ELSE IF tabs # {} /\ Len(words) = 2
        THEN IF count.error = ""
             THEN <<<<lower(words[1]), lower(words[2]), count.value>>>>
             ELSE <<>>
        ELSE IF Len(cols) >= 3 /\ to_int(cols[3]).error = ""
        THEN <<<<lower(cols[1]), lower(cols[2]), to_int(cols[3]).value>>>>
        ELSE <<>>

\* parse_bigrams on the lines of the bigram file
RECURSIVE parse_bigrams(_)
parse_bigrams(lines) ==
    IF lines = <<>> THEN <<>>
    ELSE parse_bigram_line(Head(lines)) \o parse_bigrams(Tail(lines))

\* ','.join(follower_words)
RECURSIVE join_comma(_)
join_comma(ws) ==
    IF ws = <<>> THEN <<>>
    ELSE IF Len(ws) = 1 THEN Head(ws)
    ELSE Head(ws) \o <<",">> \o join_comma(Tail(ws))

\* write_output(ranked, lang): the file written, OUTPUT_DIR/{lang}.gz, and
\* the text written through gzip, line by line: context word, tab,
\* followers joined by commas, newline.  The compressed bytes are not
\* modelled.
write_output(ranked, lang) ==
    [path |-> join(OUTPUT_DIR, lang \o STR_gz),
     content |->
        [i \in DOMAIN ranked |->
            ranked[i].key \o <<TAB>>
            \o join_comma([j \in DOMAIN ranked[i].followers |->
                              ranked[i].followers[j].w])
            \o <<NEWLINE>>]]

\* fs with the file path created or replaced
write_file(fs, path, content) ==
    [p \in DOMAIN fs \cup {path} |-> IF p = path THEN content ELSE fs[p]]

(***************************************************************************)
(* Command lines, word lists and bigram files handed to the script         *)
(***************************************************************************)
MaxBigrams == 3    \* most lines of the bigram file
MaxCount == 2      \* largest bigram count
MaxLimit == 2      \* largest --max-context / --max-followers
MinLimit == -1     \* smallest limit (argparse type=int)

Wa == <<"a">>
Wb == <<"b">>
Wc == <<"c">>

\* A pair with both words known, one with a follower missing from the
\* smaller word list, a word followed by itself, and a context word missing
\* from the smaller word list.
Pairs == {<<Wa, Wb>>, <<Wa, Wc>>, <<Wa, Wa>>, <<Wc, Wa>>}

Bigrams == {<<p[1], p[2], n>> : p \in Pairs, n \in 1..MaxCount}

RECURSIVE BigramLists(_)
BigramLists(n) ==
    IF n = 0 THEN {<<>>}
    ELSE LET shorter == BigramLists(n - 1) IN
         shorter \cup {Append(s, b) : s \in shorter, b \in Bigrams}

\* The line "w1 w2<TAB>count" of a bigram.
LineOf(b) ==
    b[1] \o <<" ">> \o b[2]
    \o <<TAB, DECIMAL_DIGITS[1][b[3] + 1], NEWLINE>>

\* A bigram file with a line of three columns in upper case, a count that
\* is no number, a blank line, a line of one column, and a plain line.
OddFile ==
    <<<<"A", " ", "B", " ", "2", NEWLINE>>,
      <<"a", " ", "c", TAB, "x", NEWLINE>>,
      <<NEWLINE>>,
      <<"a", TAB, "1", NEWLINE>>,
      <<"a", " ", "b", TAB, " ", "1", NEWLINE>>>>

\* What the download may fetch.
RemoteFiles == {<<LineOf(<<Wa, Wb, 1>>), LineOf(<<Wa, Wc, 2>>)>>}

STR_in_txt == <<"/", "t", "/", "i", "n", ".", "t", "x", "t">>
STR_de == <<"d", "e">>
STR_fr == <<"f", "r">>

\* The word lists: en knows a and b; de knows a, b (listed as "B 5") and
\* c and has a blank line; there is none for fr.
WordLists ==
    join(WORDLIST_DIR, STR_en \o STR_txt) :>
        <<<<"a", NEWLINE>>, <<"b", NEWLINE>>>>
    @@ join(WORDLIST_DIR, STR_de \o STR_txt) :>
        <<<<"a", NEWLINE>>, <<"B", " ", "5", NEWLINE>>, <<"c", NEWLINE>>,
          <<NEWLINE>>>>

\* The parsed arguments, with the locals not yet set.
Args(lang, input, max_context, max_followers) ==
    [lang |-> lang, input |-> input, max_context |-> max_context,
     max_followers |-> max_followers, wordset |-> {}, bigrams |-> <<>>]

\* Runs for every language: --input with the odd file, --input naming no
\* file, no --input with the file cached, an empty --input with the file
\* cached, no --input with nothing cached
OtherRuns ==
    {[arg |-> Args(l, src.input, MaxLimit, MaxLimit), fsys |-> src.fsys] :
     l \in {STR_en, STR_de, STR_fr},
     src \in {[input |-> STR_in_txt,
               fsys |-> write_file(WordLists, STR_in_txt, OddFile)],
              [input |-> STR_in_txt, fsys |-> WordLists],
              [input |-> None,
               fsys |-> write_file(WordLists, cache_path, OddFile)],
              [input |-> <<>>,
               fsys |-> write_file(WordLists, cache_path, OddFile)],
              [input |-> None, fsys |-> WordLists]}}

(***************************************************************************)
(* main of generate_bigrams.py                                             *)
(***************************************************************************)
\* The script's main keeps its parsed arguments and its locals wordset
\* and bigrams in arg, and ranked in res.

\* wordset = load_wordlist(args.lang); sys.exit when the list is missing
Call_load_wordlist ==
    /\ pc = "load" /\ fn = "generate_bigrams"
    /\ LET path == join(WORDLIST_DIR, arg.lang \o STR_txt) IN
       IF ~exists(fsys, path)
       THEN /\ printed' = Append(printed, [kind |-> "exit", path |-> path])
            /\ pc' = "exited"
            /\ arg' = arg
       ELSE /\ arg' = [arg EXCEPT !.wordset = load_wordlist(fsys, arg.lang)]
            /\ printed' = Append(printed,
                                 [kind |-> "loaded",
                                  n |-> Cardinality(arg'.wordset),
                                  path |-> arg.lang \o STR_txt])
            /\ pc' = "input"
    /\ UNCHANGED <<layout_id, layout_name, variant, entries, parts, calls,
                   doc, invoked, fn, res>>
    /\ UNCHANGED <<argv, fsys0, fsys, files, written, mpc>>

\* if args.input: false for no --input and for an empty one
given(input) == input # None /\ input # <<>>

\* The number of characters of a file.
RECURSIVE size(_)
size(lines) == IF lines = <<>> THEN 0 ELSE Len(Head(lines)) + size(Tail(lines))

\* The file that holds the first n characters of lines: what urlretrieve
\* has written when the transfer breaks off after n characters.
RECURSIVE truncated(_, _)
truncated(lines, n) ==
    IF n = 0 \/ lines = <<>> THEN <<>>
    ELSE IF n < Len(Head(lines)) THEN <<SubSeq(Head(lines), 1, n)>>
    ELSE <<Head(lines)>> \o truncated(Tail(lines), n - Len(Head(lines)))

\* else: ...; download_norvig_bigrams(bigram_path): the cached file is
\* used, or the file is fetched and saved.  urlretrieve raises when the
\* URL cannot be opened, leaving no file, and when the transfer breaks
\* off, leaving the part received in the cache file.
Call_download_norvig_bigrams ==
    /\ pc = "input" /\ fn = "generate_bigrams"
    /\ ~given(arg.input)
    /\ IF exists(fsys, cache_path)
       THEN /\ printed' = Append(printed, [kind |-> "cached",
                                           path |-> cache_path])
            /\ fsys' = fsys
            /\ pc' = "parse"
       ELSE \E fetched \in RemoteFiles :
                \/ /\ printed' = Append(printed, [kind |-> "downloading"])
                   /\ fsys' = fsys
                   /\ pc' = "raised"
                \/ \E got \in 0..(size(fetched) - 1) :
                       /\ printed' = Append(printed,
                                            [kind |-> "downloading"])
                       /\ fsys' = write_file(fsys, cache_path,
                                             truncated(fetched, got))
                       /\ pc' = "raised"
                \/ /\ printed' = printed
                                  \o <<[kind |-> "downloading"],
                                       [kind |-> "saved",
                                        path |-> cache_path]>>
                   /\ fsys' = write_file(fsys, cache_path, fetched)
                   /\ pc' = "parse"
    /\ UNCHANGED <<layout_id, layout_name, variant, entries, parts, calls,
                   doc, invoked, fn, arg, res>>
    /\ UNCHANGED <<argv, fsys0, files, written, mpc>>

\* bigrams = parse_bigrams(bigram_path); open raises when --input names no
\* file
Call_parse_bigrams ==
    /\ fn = "generate_bigrams"
    /\ pc = "parse" \/ (pc = "input" /\ given(arg.input))
    /\ LET bigram_path == IF given(arg.input) THEN arg.input
                          ELSE cache_path
       IN  IF ~exists(fsys, bigram_path)
           THEN arg' = arg /\ printed' = printed /\ pc' = "raised"
           ELSE /\ arg' = [arg EXCEPT
                              !.bigrams = parse_bigrams(fsys[bigram_path])]
                /\ printed' = Append(printed, [kind |-> "parsed",
                                               n |-> Len(arg'.bigrams)])
                /\ pc' = "call"
    /\ UNCHANGED <<layout_id, layout_name, variant, entries, parts, calls,
                   doc, invoked, fn, res>>
    /\ UNCHANGED <<argv, fsys0, fsys, files, written, mpc>>

\* ranked = filter_and_group(bigrams, wordset, args.max_context,
\*                           args.max_followers)
Call_filter_and_group ==
    /\ pc = "call" /\ fn = "generate_bigrams"
    /\ res' = filter_and_group(arg.bigrams, arg.wordset, arg.max_context,
                                arg.max_followers)
    /\ printed' = Append(printed,
           [kind |-> "filtered", n |-> Len(res'),
            m |-> Sum([i \in DOMAIN res' |-> Len(res'[i].followers)])])
    /\ pc' = "ret"
    /\ UNCHANGED <<layout_id, layout_name, variant, entries, parts, calls,
                   doc, invoked, fn, arg>>
    /\ UNCHANGED <<argv, fsys0, fsys, files, written, mpc>>

\* write_output(ranked, args.lang); the size in bytes its last line
\* reports is that of the compressed file and is not in the record
Call_write_output ==
    /\ pc = "ret" /\ fn = "generate_bigrams"
    /\ written' = Append(written, write_output(res, arg.lang))
    /\ LET w == written'[Len(written')] IN
       /\ fsys' = write_file(fsys, w.path, w.content)
       /\ printed' = Append(printed,
              [kind |-> "wrote",
               n |-> Sum([i \in DOMAIN res |-> Len(res[i].followers)]),
               m |-> Len(res), path |-> w.path])
    /\ pc' = "written"
    /\ UNCHANGED <<layout_id, layout_name, variant, entries, parts, calls,
                   doc, invoked, fn, arg, res>>
    /\ UNCHANGED <<argv, fsys0, files, mpc>>

\* print("Done.")
Call_done ==
    /\ pc = "written" /\ fn = "generate_bigrams"
    /\ printed' = Append(printed, [kind |-> "done"])
    /\ pc' = "exit"
    /\ UNCHANGED <<layout_id, layout_name, variant, entries, parts, calls,
                   doc, invoked, fn, arg, res>>
    /\ UNCHANGED <<argv, fsys0, fsys, files, written, mpc>>

NextBigram ==
    \/ Call_load_wordlist
    \/ Call_download_norvig_bigrams
    \/ Call_parse_bigrams
    \/ Call_filter_and_group
    \/ Call_write_output
    \/ Call_done

\* The script starts with the word lists in place.  It is run on --input
\* with the lines of a bigram list, for the languages with a word list,
\* the extreme values of --max-context and every --max-followers, and on
\* the other runs.
InitBigram ==
    /\ NoArgs
    /\ pc = "load"
    /\ fn = "generate_bigrams"
    /\ res = <<>>
    /\ \/ \E l \in {STR_en, STR_de}, mc \in {MinLimit, MaxLimit},
             mf \in MinLimit..MaxLimit, bl \in BigramLists(MaxBigrams) :
              /\ arg = Args(l, STR_in_txt, mc, mf)
              /\ fsys = write_file(WordLists, STR_in_txt,
                                   [i \in DOMAIN bl |-> LineOf(bl[i])])
       \/ \E run \in OtherRuns : arg = run.arg /\ fsys = run.fsys
    /\ fsys0 = fsys
    /\ argv = <<>>
    /\ files = <<>>
    /\ printed = <<>>
    /\ written = <<>>
    /\ mpc = "none"

SpecBigram == InitBigram /\ [][NextBigram]_vars

(***************************************************************************)
(* Claims about the bigram preprocessing (checked under SpecBigram)        *)
(***************************************************************************)
\* filter_and_group has returned.
Ranked == fn = "generate_bigrams" /\ pc \in {"ret", "written", "exit"}

\* The counts of a follower list never increase from one entry to the next.
NonIncreasing(followers) ==
    \A i, j \in DOMAIN followers :
        i < j => followers[i].count >= followers[j].count

\* Every context word and follower is known and no word follows itself.
KnownWords(x) ==
    /\ x.key \in arg.wordset
    /\ \A j \in DOMAIN x.followers :
           /\ x.followers[j].w \in arg.wordset
           /\ x.followers[j].w # x.key

\* The bigrams of the input that qualify for the context word w.
Qualifying(w) ==
    {i \in DOMAIN arg.bigrams :
        /\ arg.bigrams[i][1] = w
        /\ arg.bigrams[i][2] \in arg.wordset
        /\ arg.bigrams[i][2] # w}

\* The followers named on a written line, in order: the fields between
\* the tab and the line end, separated by commas.
RECURSIVE Fields(_)
Fields(s) ==
    LET commas == {i \in DOMAIN s : s[i] = ","} IN
    IF s = <<>> THEN <<>>
    ELSE IF commas = {} THEN <<s>>
    ELSE LET c == CHOOSE i \in commas : \A j \in commas : i <= j IN
         <<SubSeq(s, 1, c - 1)>> \o Fields(SubSeq(s, c + 1, Len(s)))

\* The written line l names the context word and the followers of x.
LineNames(l, x) ==
    LET k == Len(x.key) IN
    /\ SubSeq(l, 1, k) = x.key
    /\ l[k + 1] = TAB
    /\ l[Len(l)] = NEWLINE
    /\ Fields(SubSeq(l, k + 2, Len(l) - 1))
           = [j \in DOMAIN x.followers |-> x.followers[j].w]

\* C15 (as stated): every returned follower list holds known words other
\* than its known context word, most frequent first, and has at most
\* max_followers entries.
C15_FollowerLists ==
    Ranked =>
        \A i \in DOMAIN res :
            /\ KnownWords(res[i])
            /\ NonIncreasing(res[i].followers)
            /\ Len(res[i].followers) <= arg.max_followers

\* C15 (amended): every returned follower list holds known words other
\* than its known context word, most frequent first; of the n qualifying
\* bigrams of its context word it keeps min(n, max_followers) for a
\* max_followers of zero or more, and all but the -max_followers least
\* frequent for a negative one.  The line written for it, in the file of
\* the language, names the same followers in the same order.
C15_FollowerListsByLimit ==
    Ranked =>
        \A i \in DOMAIN res :
            LET n == Cardinality(Qualifying(res[i].key))
                m == arg.max_followers
                fs == res[i].followers
            IN  /\ KnownWords(res[i])
                /\ NonIncreasing(fs)
                /\ m >= 0 => Len(fs) = (IF n < m THEN n ELSE m)
                /\ m < 0 => Len(fs) = (IF n + m > 0 THEN n + m ELSE 0)
                /\ pc \in {"written", "exit"} =>
                       /\ Len(written) = 1
                       /\ fsys[written[1].path] = written[1].content
                       /\ Len(written[1].content) = Len(res)
                       /\ LineNames(written[1].content[i], res[i])

\* Two followers of different counts listed in input order least frequent
\* first, one bigram cut off by the limit, one dropped for its unknown
\* follower.
C15_Witness ==
    /\ fn = "generate_bigrams" /\ pc = "exit"
    /\ arg.max_followers = 1
    /\ arg.wordset = {Wa, Wb}
    /\ arg.bigrams = <<<<Wa, Wb, 1>>, <<Wa, Wc, 2>>, <<Wa, Wb, 2>>>>
    /\ res = <<[key |-> Wa, followers |-> <<[w |-> Wb, count |-> 2]>>]>>

====
